---- MODULE Spec2Model ----
(***************************************************************************)
(* ToyFrameV concurrency core: SharedState / Future / ThreadPool.          *)
(*                                                                         *)
(* Every critical section of the pool mutex (m_mutex) is one action; the   *)
(* SharedState mutex is only ever taken for a few assignments, so each     *)
(* SharedState method is one atomic update of state/value/exception.       *)
(* Condition variables are modelled by the threads parked on them: a       *)
(* thread whose predicate is false parks ("waiting"), a notify moves       *)
(* parked threads back to the point where they re-take the mutex and       *)
(* re-test the predicate, and a parked thread may also wake spuriously.    *)
(*                                                                         *)
(* The FileSink of the log (its bounded record queue, its writer thread    *)
(* and the rotated file) is a second machine with its own variables; the   *)
(* specifications of the pool leave it unconstructed and SinkSpec leaves   *)
(* the pool unconstructed.                                                 *)
(***************************************************************************)
EXTENDS Integers, Sequences, FiniteSets, TLC

\* ------------------------------------------------------------- bounds
NumTasks == 2           \* Submit calls made on the pool
MaxThreads == 1         \* largest worker count constructed
MaxQueueCfg == 1        \* largest maxQueueSize passed to the constructor
NumShutdownCalls == 1   \* Shutdown calls made on the pool (destructor included)
FifoQueueSize == 2      \* maxQueueSize of the pool whose dequeue order is observed
NumRecords == 2         \* OnMessage calls made on the FileSink
MaxQueueCapacity == 2   \* largest Options::queueCapacity
MaxBytes == 2           \* largest Options::maxBytes
MaxFiles == 1           \* largest Options::maxFiles
MaxRecordSize == 2      \* largest size of a record (line plus newline)
NumSinkShutdownCalls == 2   \* FileSink::Shutdown calls (destructor included)
NumLines == 4           \* records one logging thread sends, one after the other
MaxRotatedFiles == 2    \* largest Options::maxFiles of the sink that thread feeds
NumLockThreads == 2     \* threads whose mutex acquisitions are followed
MaxFmtLen == 4          \* longest format string given to fmt::format
MaxArgs == 2            \* largest number of arguments given to fmt::format
NumWrites == 1          \* Log::Write calls made
NumSinks == 2           \* sinks the application registers with Log::AddSink
NumCategories == 2      \* category names in use

Tasks == 1..NumTasks
\* the Submit call that the callable of a Task makes on the same pool
NestedTask == NumTasks + 1
AllTasks == Tasks \cup {NestedTask}
Workers == 1..MaxThreads
Callers == 1..NumShutdownCalls
\* one more Shutdown call, made while or after those (another thread's, or the
\* destructor's)
SecondCall == NumShutdownCalls + 1
NoTask == 0
NoCall == <<>>
Records == 1..NumRecords
SinkCallers == 1..NumSinkShutdownCalls
NoRecord == 0
Lines == 1..NumLines
Writes == 1..NumWrites
UserSinks == 1..NumSinks
Categories == 1..NumCategories

Terminal == {"Ready", "Cancelled", "Failed"}
FutureState == {"Pending", "Running", "Ready", "Cancelled", "Failed"}

VARIABLES
    m_maxQueueSize,   \* ThreadPool::m_maxQueueSize
    m_threadCount,    \* ThreadPool::m_threadCount
    m_tasks,          \* ThreadPool::m_tasks, a sequence of task ids
    m_stopping,       \* ThreadPool::m_stopping
    state,            \* SharedStateBase::state of task t ("NoState": not created)
    value,            \* SharedState<T>::value has a value
    exception,        \* SharedStateBase::exception is set
    wpc,              \* position of worker w in WorkerLoop / the task closure
    wtask,            \* the Task worker w holds (NoTask when none)
    spc,              \* position of the Submit call for task t
    sdpc,             \* position of Shutdown call c
    cancelRet,        \* the latest Future::Cancel call: <<t, result, state found,
                      \* task still queued>> (NoCall before the first call)
    invoked,          \* history: the callable of task t has been invoked
    popped,           \* history: tasks popped by a worker, in pop order
    discarded,        \* history: tasks removed by m_tasks.clear()
    stopper,          \* history: the Shutdown call that set m_stopping (0: none)
    stopWait,         \* history: the wait argument of that call
    stopQueue,        \* history: m_tasks at the moment m_stopping was set
    enqueued,         \* history: tasks in the order Submit enqueued them
    gpc,              \* position of the Future::Get call on the Future of task t,
                      \* and its outcome once it has returned
    m_options,        \* FileSink::m_options (queueCapacity, maxBytes, maxFiles)
    m_running,        \* FileSink::m_running
    m_queue,          \* FileSink::m_queue, a sequence of record ids
    m_currentSize,    \* FileSink::m_currentSize
    isOpen,           \* m_stream.is_open()
    disk,             \* the files on disk: suffix number (0: path, i: path.i) |->
                      \* the lines of that file, each <<record, size, number
                      \* of rotations performed before the line was written>>
    ppc,              \* position of the OnMessage call that carries record r
    lpc,              \* position of the sink's thread in FileSink::WorkerLoop
    rec,              \* the Record that thread holds (NoRecord when none)
    cpc,              \* position of FileSink::Shutdown call c
    sinkEnqueued,     \* history: records in the order OnMessage enqueued them
    sinkWritten,      \* history: records in the order they were written to a file
    sinkStopper,      \* history: the Shutdown call that cleared m_running (0: none)
    sinkStopQueue,    \* history: m_queue at the moment m_running was cleared
    rotations,        \* history: the rotations RotateIfNeeded has performed
    fmtCall,          \* a call of fmt::format: its format string, its number of
                      \* arguments, its position and the string it returned
    inst,             \* LoggerInstance: runtimeLevel, sinks, categoryEnabled
    lw,               \* Log::Write call w: its position, its level and category,
                      \* the sinksCopy of Log::Submit and the sinks of that copy
                      \* whose OnMessage has been called, in call order
    lsd,              \* Log::Shutdown call c: its position and the FileSinks of
                      \* its sinksCopy
    lk                \* thread t at the level of its mutexes: the operation it
                      \* is in and the next lock step of that operation

poolVars == <<m_maxQueueSize, m_threadCount, m_tasks, m_stopping>>
futVars == <<state, value, exception>>
thrVars == <<wpc, wtask, spc, sdpc, cancelRet>>
histVars == <<invoked, popped, discarded, stopper, stopWait, stopQueue, enqueued>>
sinkVars == <<m_options, m_running, m_queue, m_currentSize, isOpen, disk,
              ppc, lpc, rec, cpc,
              sinkEnqueued, sinkWritten, sinkStopper, sinkStopQueue, rotations>>
logVars == <<fmtCall, inst, lw, lsd, lk>>
vars == <<poolVars, futVars, thrVars, histVars, gpc, sinkVars, logVars>>

\* ------------------------------------------------------------- helpers
Range(s) == {s[i] : i \in 1..Len(s)}

\* m_maxQueueSize(maxQueueSize == 0 ? 1 : maxQueueSize)
EffectiveMaxQueueSize(n) == IF n = 0 THEN 1 ELSE n

\* mutant: TryCancel reports failure even when it cancelled
TryCancelResult_Never(s) == FALSE

\* SharedStateBase::TryCancel: the return value
TryCancelResult(s) == s = "Pending"

\* mutant: TryCancel also cancels work in progress
TryCancelState_AlsoRunning(s) == IF s \in {"Pending", "Running"} THEN "Cancelled" ELSE s

\* SharedStateBase::TryCancel: the state it leaves
TryCancelState(s) == IF s = "Pending" THEN "Cancelled" ELSE s

\* mutant: the closure does not see the cancellation
IsCancelled_Never(s) == FALSE

\* SharedStateBase::IsCancelled
IsCancelled(s) == s = "Cancelled"

\* SharedStateBase::MarkRunning
MarkRunningState(s) == IF s = "Pending" THEN "Running" ELSE s

\* SharedStateBase::NotifyReady(finalState)
NotifyReadyState(s, finalState) == finalState

\* mutant: SetValue stores the value without making the state Ready
SetValueState_Keep(s) == s

\* SharedState<T>::SetValue
SetValueState(s) == "Ready"

\* mutant: the failure is not recorded in the SharedState
MarkFailedState_Lost(s) == s

\* SharedStateBase::MarkFailed
MarkFailedState(s) == "Failed"

\* mutant: the capacity test is off by one
SubmitMayProceed_OffByOne == m_stopping \/ Len(m_tasks) <= m_maxQueueSize

\* mutant: the wait on m_cvSpace does not look at m_stopping
SubmitMayProceed_NoStop == Len(m_tasks) < m_maxQueueSize

\* mutant: a cancelled Task no longer counts against the capacity
SubmitMayProceed_SkipCancelled ==
    m_stopping \/
    Cardinality({i \in 1..Len(m_tasks) : state[m_tasks[i]] # "Cancelled"}) < m_maxQueueSize

\* the predicate of m_cvSpace.wait in Submit
SubmitMayProceed == m_stopping \/ Len(m_tasks) < m_maxQueueSize

\* the predicate of m_cvTasks.wait in Dequeue
DequeueMayProceed == m_stopping \/ m_tasks # <<>>

\* mutant: a worker leaves as soon as the pool is stopping
DequeueStops_IgnoreQueue == m_stopping

\* Dequeue's "return false" test
DequeueStops == m_stopping /\ m_tasks = <<>>

\* mutant: Dequeue takes the newest Task
Front_Back(q) == q[Len(q)]

\* m_tasks.front()
Front(q) == Head(q)

\* threads parked on the two condition variables
WaitingWorkers == {w \in Workers : wpc[w] = "waiting"}
WaitingSubmitters == {t \in AllTasks : spc[t] = "waiting"}

\* mutant: the queue is cleared without cancelling its Futures
CancelQueued_NoCancel(q) == state

\* mutant: TryCancel is also called on the Tasks that are not in the queue
CancelQueued_AlsoClaimed(q) == [t \in AllTasks |-> TryCancelState(state[t])]

\* the state of every task after TryCancel on each task of queue q
CancelQueued(q) ==
    [t \in AllTasks |-> IF t \in Range(q) THEN TryCancelState(state[t]) ELSE state[t]]

\* the tasks of queue q whose TryCancel succeeds (and notifies the Future's cv)
CancelledBy(q) == {t \in Range(q) : TryCancelResult(state[t])}

\* mutant: the state changes without cv.notify_all()
NotifyAll_Lost(ts) == gpc

\* cv.notify_all() on the SharedState of each task in ts: the threads parked in
\* Future::Wait on it go back to re-test the predicate
NotifyAll(ts) ==
    [t \in AllTasks |-> IF t \in ts /\ gpc[t] = "waiting" THEN "woken" ELSE gpc[t]]

\* ------------------------------------------------------------- Init
\* the pool after ThreadPool(threadCount, maxQueueSize), maxQueueSize drawn
\* from sizes
ThreadPoolInit(sizes) ==
    /\ \E maxQueueSize \in sizes :
           m_maxQueueSize = EffectiveMaxQueueSize(maxQueueSize)
    /\ m_threadCount \in 1..MaxThreads
    /\ m_tasks = <<>>
    /\ m_stopping = FALSE
    /\ state = [t \in AllTasks |-> "NoState"]
    /\ value = [t \in AllTasks |-> FALSE]
    /\ exception = [t \in AllTasks |-> FALSE]
    /\ wpc = [w \in Workers |-> IF w <= m_threadCount THEN "dequeue" ELSE "absent"]
    /\ wtask = [w \in Workers |-> NoTask]
    /\ spc = [t \in AllTasks |-> "idle"]
    /\ sdpc = [c \in Callers \cup {SecondCall} |-> "idle"]
    /\ cancelRet = NoCall
    /\ invoked = [t \in AllTasks |-> FALSE]
    /\ popped = <<>>
    /\ discarded = {}
    /\ stopper = 0
    /\ stopWait = TRUE
    /\ stopQueue = <<>>
    /\ enqueued = <<>>
    /\ gpc = [t \in AllTasks |-> "idle"]

\* no FileSink has been constructed
NoFileSink ==
    /\ m_options = [queueCapacity |-> 0, maxBytes |-> 0, maxFiles |-> 0]
    /\ m_running = FALSE
    /\ m_queue = <<>>
    /\ m_currentSize = 0
    /\ isOpen = FALSE
    /\ disk = <<>>
    /\ ppc = [r \in Records |-> "idle"]
    /\ lpc = "absent"
    /\ rec = NoRecord
    /\ cpc = [c \in SinkCallers |-> "idle"]
    /\ sinkEnqueued = <<>>
    /\ sinkWritten = <<>>
    /\ sinkStopper = 0
    /\ sinkStopQueue = <<>>
    /\ rotations = 0

\* no call of fmt::format is being made
NoFormatCall == fmtCall = [fmtStr |-> <<>>, nargs |-> 0, pc |-> "none", result |-> <<>>]

\* enum class Level
Trace == 0
Debug == 1
Info == 2
Warning == 3
Error == 4
Fatal == 5
Level == Trace..Fatal

\* the empty category string
NoCategory == 0

\* the sinks: the ConsoleSink the facade creates itself, the sinks of the
\* application, and the FileSink
DefaultSinkId == 0
FileSinkId == NumSinks + 1

\* the LoggerInstance as constructed, but with the given sinks registered, and
\* no call into the facade begun
LoggerInit(sinks) ==
    /\ inst = [runtimeLevel |-> Debug,
               sinks |-> sinks,
               categoryEnabled |-> [c \in Categories |-> "absent"]]
    /\ lw = [w \in Writes |-> [pc |-> "idle", level |-> Trace, category |-> NoCategory,
                               snapshot |-> <<>>, handed |-> <<>>]]
    /\ lsd = [c \in SinkCallers |-> [pc |-> "idle", fileSinks |-> <<>>]]
    /\ lk = <<>>

\* nothing of the log facade is in use
NoLogCalls == NoFormatCall /\ LoggerInit(<<DefaultSinkId>>)

\* the program uses the pool and never touches the log: the variables of the
\* FileSink and of the facade hold nothing
NoLogging ==
    /\ m_options = <<>> /\ m_running = FALSE /\ m_queue = <<>> /\ m_currentSize = 0
    /\ isOpen = FALSE /\ disk = <<>> /\ ppc = <<>> /\ lpc = "absent" /\ rec = NoRecord
    /\ cpc = <<>> /\ sinkEnqueued = <<>> /\ sinkWritten = <<>> /\ sinkStopper = 0
    /\ sinkStopQueue = <<>> /\ rotations = 0
    /\ fmtCall = <<>> /\ inst = <<>> /\ lw = <<>> /\ lsd = <<>> /\ lk = <<>>

Init == ThreadPoolInit(0..MaxQueueCfg) /\ NoLogging

\* ------------------------------------------------------------- Submit
\* One pass through the locked block of Submit: on entry (the SharedState is
\* created first) or after a wake-up from m_cvSpace.
Submit(t) ==
    /\ spc[t] \in {"idle", "retry"}
    /\ (spc[t] = "idle" /\ t \in Tasks) => \A u \in Tasks : u < t => spc[u] # "idle"
    /\ LET s == IF spc[t] = "idle" THEN "Pending" ELSE state[t]
       IN IF SubmitMayProceed
          THEN IF m_stopping
               THEN /\ state' = [state EXCEPT ![t] = TryCancelState(s)]
                    /\ spc' = [spc EXCEPT ![t] = "rejected"]
                    /\ UNCHANGED m_tasks
               ELSE /\ state' = [state EXCEPT ![t] = s]
                    /\ m_tasks' = Append(m_tasks, t)
                    /\ spc' = [spc EXCEPT ![t] = "notify"]
          ELSE /\ state' = [state EXCEPT ![t] = s]
               /\ spc' = [spc EXCEPT ![t] = "waiting"]
               /\ UNCHANGED m_tasks
    /\ enqueued' = IF m_tasks' = m_tasks THEN enqueued ELSE Append(enqueued, t)
    /\ UNCHANGED <<m_maxQueueSize, m_threadCount, m_stopping,
                   value, exception, wpc, wtask, sdpc, cancelRet,
                   invoked, popped, discarded, stopper, stopWait, stopQueue>>
    /\ UNCHANGED <<gpc, sinkVars, logVars>>

\* m_cvTasks.notify_one() after the lock is released, then return the Future
SubmitNotify(t) ==
    /\ spc[t] = "notify"
    /\ spc' = [spc EXCEPT ![t] = "returned"]
    /\ IF WaitingWorkers = {}
       THEN wpc' = wpc
       ELSE \E w \in WaitingWorkers : wpc' = [wpc EXCEPT ![w] = "dequeue"]
    /\ UNCHANGED <<poolVars, futVars, wtask, sdpc, cancelRet, histVars>>
    /\ UNCHANGED <<gpc, sinkVars, logVars>>

\* ------------------------------------------------------------- workers
Dequeue(w) ==
    /\ wpc[w] = "dequeue"
    /\ IF DequeueMayProceed
       THEN IF DequeueStops
            THEN /\ wpc' = [wpc EXCEPT ![w] = "exited"]
                 /\ UNCHANGED <<m_tasks, wtask, spc, popped>>
            ELSE /\ wtask' = [wtask EXCEPT ![w] = Front(m_tasks)]
                 /\ m_tasks' = Tail(m_tasks)
                 /\ popped' = Append(popped, Front(m_tasks))
                 /\ wpc' = [wpc EXCEPT ![w] = "closure"]
                 /\ IF WaitingSubmitters = {}
                    THEN spc' = spc
                    ELSE \E t \in WaitingSubmitters : spc' = [spc EXCEPT ![t] = "retry"]
       ELSE /\ wpc' = [wpc EXCEPT ![w] = "waiting"]
            /\ UNCHANGED <<m_tasks, wtask, spc, popped>>
    /\ UNCHANGED <<m_maxQueueSize, m_threadCount, m_stopping,
                   futVars, sdpc, cancelRet,
                   invoked, discarded, stopper, stopWait, stopQueue, enqueued>>
    /\ UNCHANGED <<gpc, sinkVars, logVars>>

\* the closure's first statement: if (state->IsCancelled()) {
\*     state->NotifyReady(FutureState::Cancelled); return; }
\* (no other thread changes a Cancelled state, so the two calls are one step)
ClosureCheck(w) ==
    /\ wpc[w] = "closure"
    /\ IF IsCancelled(state[wtask[w]])
       THEN /\ state' = [state EXCEPT ![wtask[w]] = NotifyReadyState(@, "Cancelled")]
            /\ gpc' = NotifyAll({wtask[w]})
            /\ wpc' = [wpc EXCEPT ![w] = "dequeue"]
            /\ wtask' = [wtask EXCEPT ![w] = NoTask]
       ELSE /\ wpc' = [wpc EXCEPT ![w] = "mark"]
            /\ UNCHANGED <<state, wtask, gpc>>
    /\ UNCHANGED <<poolVars, value, exception, spc, sdpc, cancelRet, histVars>>
    /\ UNCHANGED <<sinkVars, logVars>>

\* state->MarkRunning();
MarkRunning(w) ==
    /\ wpc[w] = "mark"
    /\ state' = [state EXCEPT ![wtask[w]] = MarkRunningState(@)]
    /\ wpc' = [wpc EXCEPT ![w] = "invoke"]
    /\ UNCHANGED <<poolVars, value, exception, wtask, spc, sdpc, cancelRet, histVars>>
    /\ UNCHANGED <<gpc, sinkVars, logVars>>

\* auto result = fn(); state->SetValue(std::move(result));
\* the callable runs (wpc = "invoke" while it does) and returns a result
InvokeSetValue(w) ==
    /\ wpc[w] = "invoke"
    /\ invoked' = [invoked EXCEPT ![wtask[w]] = TRUE]
    /\ value' = [value EXCEPT ![wtask[w]] = TRUE]
    /\ state' = [state EXCEPT ![wtask[w]] = SetValueState(@)]
    /\ gpc' = NotifyAll({wtask[w]})
    /\ wpc' = [wpc EXCEPT ![w] = "dequeue"]
    /\ wtask' = [wtask EXCEPT ![w] = NoTask]
    /\ UNCHANGED <<poolVars, exception, spc, sdpc, cancelRet,
                   popped, discarded, stopper, stopWait, stopQueue, enqueued>>
    /\ UNCHANGED <<sinkVars, logVars>>

\* fn() throws; catch (...) { state->MarkFailed(std::current_exception()); }
InvokeMarkFailed(w) ==
    /\ wpc[w] = "invoke"
    /\ invoked' = [invoked EXCEPT ![wtask[w]] = TRUE]
    /\ exception' = [exception EXCEPT ![wtask[w]] = TRUE]
    /\ state' = [state EXCEPT ![wtask[w]] = MarkFailedState(@)]
    /\ gpc' = NotifyAll({wtask[w]})
    /\ wpc' = [wpc EXCEPT ![w] = "dequeue"]
    /\ wtask' = [wtask EXCEPT ![w] = NoTask]
    /\ UNCHANGED <<poolVars, value, spc, sdpc, cancelRet,
                   popped, discarded, stopper, stopWait, stopQueue, enqueued>>
    /\ UNCHANGED <<sinkVars, logVars>>

\* ------------------------------------------------------------- Future::Cancel
\* Cancel() on the Future that Submit returned: TryCancel on its SharedState
FutureCancel(t) ==
    /\ spc[t] \in {"returned", "rejected"}
    /\ cancelRet' = <<t, TryCancelResult(state[t]), state[t], t \in Range(m_tasks)>>
    /\ state' = [state EXCEPT ![t] = TryCancelState(@)]
    /\ gpc' = NotifyAll(IF TryCancelResult(state[t]) THEN {t} ELSE {})
    /\ UNCHANGED <<poolVars, value, exception, wpc, wtask, spc, sdpc, histVars>>
    /\ UNCHANGED <<sinkVars, logVars>>

\* ------------------------------------------------------------- CancelAllPending
CancelAllPending ==
    /\ m_tasks # <<>> \/ WaitingSubmitters # {}
    /\ state' = CancelQueued(m_tasks)
    /\ gpc' = NotifyAll(CancelledBy(m_tasks))
    /\ m_tasks' = <<>>
    /\ discarded' = discarded \cup Range(m_tasks)
    /\ spc' = [t \in AllTasks |-> IF spc[t] = "waiting" THEN "retry" ELSE spc[t]]
    /\ UNCHANGED <<m_maxQueueSize, m_threadCount, m_stopping,
                   value, exception, wpc, wtask, sdpc, cancelRet,
                   invoked, popped, stopper, stopWait, stopQueue, enqueued>>
    /\ UNCHANGED <<sinkVars, logVars>>

\* ------------------------------------------------------------- Shutdown
\* the locked block of Shutdown(wait)
Shutdown(c, wait) ==
    /\ sdpc[c] = "idle"
    /\ \A d \in Callers : d < c => sdpc[d] # "idle"
    /\ IF m_stopping
       THEN /\ sdpc' = [sdpc EXCEPT ![c] = "returned"]
            /\ UNCHANGED <<m_stopping, m_tasks, state, discarded, stopper, stopWait, stopQueue, gpc>>
       ELSE /\ m_stopping' = TRUE
            /\ stopper' = c
            /\ stopWait' = wait
            /\ stopQueue' = m_tasks
            /\ sdpc' = [sdpc EXCEPT ![c] = "notify"]
            /\ IF wait
               THEN UNCHANGED <<m_tasks, state, discarded, gpc>>
               ELSE /\ state' = CancelQueued(m_tasks)
                    /\ gpc' = NotifyAll(CancelledBy(m_tasks))
                    /\ m_tasks' = <<>>
                    /\ discarded' = discarded \cup Range(m_tasks)
    /\ UNCHANGED <<m_maxQueueSize, m_threadCount, value, exception,
                   wpc, wtask, spc, cancelRet, invoked, popped, enqueued>>
    /\ UNCHANGED <<sinkVars, logVars>>

\* m_cvTasks.notify_all(); m_cvSpace.notify_all();
ShutdownNotify(c) ==
    /\ sdpc[c] = "notify"
    /\ wpc' = [w \in Workers |-> IF wpc[w] = "waiting" THEN "dequeue" ELSE wpc[w]]
    /\ spc' = [t \in AllTasks |-> IF spc[t] = "waiting" THEN "retry" ELSE spc[t]]
    /\ sdpc' = [sdpc EXCEPT ![c] = "join"]
    /\ UNCHANGED <<poolVars, futVars, wtask, cancelRet, histVars>>
    /\ UNCHANGED <<gpc, sinkVars, logVars>>

\* every worker.join() has returned; m_workers.clear()
ShutdownJoin(c) ==
    /\ sdpc[c] = "join"
    /\ \A w \in Workers : wpc[w] \in {"exited", "absent"}
    /\ sdpc' = [sdpc EXCEPT ![c] = "returned"]
    /\ UNCHANGED <<poolVars, futVars, wpc, wtask, spc, cancelRet, histVars>>
    /\ UNCHANGED <<gpc, sinkVars, logVars>>

\* ------------------------------------------------------------- Future::Wait / Get
\* the predicate of cv.wait in Future::Wait
WaitDone(s) == s \in Terminal

\* what Get does with the state it finds once Wait(0) has returned
GetOutcome(s, hasException, hasValue) ==
    IF s = "Cancelled" THEN "cancelled"
    ELSE IF s = "Failed" /\ hasException THEN "rethrown"
    ELSE IF ~hasValue THEN "novalue"
    ELSE "value"

\* Get() on the Future that Submit returned: one pass through Wait(0), on
\* entry or after a wake-up
FutureWait(t) ==
    /\ spc[t] \in {"returned", "rejected"}
    /\ gpc[t] \in {"idle", "woken"}
    /\ gpc' = [gpc EXCEPT ![t] = IF WaitDone(state[t]) THEN "read" ELSE "waiting"]
    /\ UNCHANGED <<poolVars, futVars, thrVars, histVars, sinkVars, logVars>>

\* the rest of Get: it takes the lock again and reads state, exception, value
FutureGet(t) ==
    /\ gpc[t] = "read"
    /\ gpc' = [gpc EXCEPT ![t] = GetOutcome(state[t], exception[t], value[t])]
    /\ UNCHANGED <<poolVars, futVars, thrVars, histVars, sinkVars, logVars>>

SpuriousWakeWait(t) ==
    /\ gpc[t] = "waiting"
    /\ gpc' = [gpc EXCEPT ![t] = "woken"]
    /\ UNCHANGED <<poolVars, futVars, thrVars, histVars, sinkVars, logVars>>

\* ------------------------------------------------------------- spurious wake-ups
SpuriousWakeWorker(w) ==
    /\ wpc[w] = "waiting"
    /\ wpc' = [wpc EXCEPT ![w] = "dequeue"]
    /\ UNCHANGED <<poolVars, futVars, wtask, spc, sdpc, cancelRet, histVars>>
    /\ UNCHANGED <<gpc, sinkVars, logVars>>

SpuriousWakeSubmit(t) ==
    /\ spc[t] = "waiting"
    /\ spc' = [spc EXCEPT ![t] = "retry"]
    /\ UNCHANGED <<poolVars, futVars, wpc, wtask, sdpc, cancelRet, histVars>>
    /\ UNCHANGED <<gpc, sinkVars, logVars>>

\* ------------------------------------------------------------- specification
WorkerStep(w) ==
    \/ Dequeue(w)
    \/ ClosureCheck(w)
    \/ MarkRunning(w)
    \/ InvokeSetValue(w)
    \/ InvokeMarkFailed(w)

Next ==
    \/ \E t \in Tasks : Submit(t)
    \/ \E t \in Tasks : SubmitNotify(t)
    \/ \E w \in Workers : WorkerStep(w)
    \/ \E t \in Tasks : FutureCancel(t)
    \/ CancelAllPending
    \/ \E c \in Callers, wait \in BOOLEAN : Shutdown(c, wait)
    \/ \E c \in Callers : ShutdownNotify(c)
    \/ \E c \in Callers : ShutdownJoin(c)
    \/ \E w \in Workers : SpuriousWakeWorker(w)
    \/ \E t \in Tasks : SpuriousWakeSubmit(t)

Spec == Init /\ [][Next]_vars

\* weak fairness of every thread that is runnable: workers, woken or returning
\* Submit calls, and the Shutdown call on its way to join
SubmitRetry(t) == spc[t] = "retry" /\ Submit(t)

Fairness ==
    /\ \A w \in Workers : WF_vars(WorkerStep(w))
    /\ \A t \in Tasks : WF_vars(SubmitRetry(t)) /\ WF_vars(SubmitNotify(t))
    /\ \A c \in Callers : WF_vars(ShutdownNotify(c)) /\ WF_vars(ShutdownJoin(c))

FairSpec == Spec /\ Fairness

\* the pool on which one more Shutdown call is made, once the others have taken
\* m_mutex (so it finds m_stopping set)
SecondShutdownNext ==
    \/ Next
    \/ \E wait \in BOOLEAN : Shutdown(SecondCall, wait)

SecondShutdownSpec == Init /\ [][SecondShutdownNext]_vars

\* ------------------------------------------------------------- Submit from a callable
\* the Task whose callable calls Submit on the pool that runs it, then returns
\* or throws
OuterTask == 1

\* the worker that runs that callable
OuterRunning(w) == wpc[w] = "invoke" /\ wtask[w] = OuterTask

\* the callable's Submit call: the locked block, on entry or after a wake-up
NestedSubmit ==
    /\ \E w \in Workers : OuterRunning(w)
    /\ Submit(NestedTask)

\* the callable ends; that of OuterTask only once its Submit call has returned
NestedInvoke(w) ==
    /\ OuterRunning(w) => spc[NestedTask] \in {"returned", "rejected"}
    /\ (InvokeSetValue(w) \/ InvokeMarkFailed(w))

NestedWorkerStep(w) ==
    \/ Dequeue(w)
    \/ ClosureCheck(w)
    \/ MarkRunning(w)
    \/ NestedInvoke(w)

NestedNext ==
    \/ \E t \in Tasks : Submit(t)
    \/ NestedSubmit
    \/ \E t \in AllTasks : SubmitNotify(t)
    \/ \E w \in Workers : NestedWorkerStep(w)
    \/ \E t \in Tasks : FutureCancel(t)
    \/ CancelAllPending
    \/ \E c \in Callers, wait \in BOOLEAN : Shutdown(c, wait)
    \/ \E c \in Callers : ShutdownNotify(c)
    \/ \E c \in Callers : ShutdownJoin(c)
    \/ \E w \in Workers : SpuriousWakeWorker(w)
    \/ \E t \in AllTasks : SpuriousWakeSubmit(t)

NestedSpec == Init /\ [][NestedNext]_vars

\* weak fairness of every thread that is runnable, the callable included
FairNestedSpec ==
    /\ NestedSpec
    /\ \A w \in Workers : WF_vars(NestedWorkerStep(w))
    /\ WF_vars(NestedSubmit)
    /\ \A t \in AllTasks : WF_vars(SubmitRetry(t)) /\ WF_vars(SubmitNotify(t))
    /\ \A c \in Callers : WF_vars(ShutdownNotify(c)) /\ WF_vars(ShutdownJoin(c))

\* the pool constructed with a queue that holds FifoQueueSize Tasks, or one
\* less so that Submit calls also block
FifoInit == ThreadPoolInit({FifoQueueSize - 1, FifoQueueSize}) /\ NoLogging

FifoSpec == FifoInit /\ [][Next]_vars

\* the pool together with the threads that call Get on the returned Futures
GetStep(t) ==
    \/ FutureWait(t)
    \/ FutureGet(t)

FutureNext ==
    \/ Next
    \/ \E t \in Tasks : GetStep(t)
    \/ \E t \in Tasks : SpuriousWakeWait(t)

FutureSpec == Init /\ [][FutureNext]_vars

\* weak fairness of the worker threads and of the threads inside Get; the
\* threads that call Submit, Cancel and Shutdown may stop anywhere
FairFutureSpec ==
    /\ FutureSpec
    /\ \A w \in Workers : WF_vars(WorkerStep(w))
    /\ \A t \in Tasks : WF_vars(GetStep(t))

\* ------------------------------------------------------------- observations
\* Submit calls that enqueued their Task
Accepted == {t \in Tasks : spc[t] \in {"notify", "returned"}}

\* Submit calls that returned after enqueuing
Returned == {t \in Tasks : spc[t] = "returned"}

\* a worker is executing the callable of t
Running(t) == \E w \in Workers : wtask[w] = t /\ wpc[w] = "invoke"

\* a worker holds the Task of t
Held(t) == \E w \in Workers : wtask[w] = t

\* the latest Cancel() call was on t and returned r
CancelReturned(t, r) == cancelRet # NoCall /\ cancelRet[1] = t /\ cancelRet[2] = r

StopperReturned == stopper # 0 /\ sdpc[stopper] = "returned"

\* the index of x in a sequence that holds it
Pos(seq, x) == CHOOSE i \in 1..Len(seq) : seq[i] = x

NoDuplicates(seq) == \A i, j \in 1..Len(seq) : seq[i] = seq[j] => i = j

\* seq keeps the order of the sequence order (whose elements are distinct)
InOrderOf(seq, order) ==
    /\ Range(seq) \subseteq Range(order)
    /\ \A i, j \in 1..Len(seq) : i < j => Pos(order, seq[i]) < Pos(order, seq[j])

\* the outcomes of a Get call that has returned or thrown
GetOutcomes == {"value", "rethrown", "cancelled", "novalue"}

\* something other than running the callables to their return has happened
Disturbed(t) ==
    \/ cancelRet # NoCall
    \/ discarded # {}
    \/ m_stopping
    \/ exception[t]

\* ============================================================= FileSink
\* mutant: the capacity test of OnMessage is off by one
SinkMayEnqueue_OffByOne == ~m_running \/ Len(m_queue) <= m_options.queueCapacity

\* mutant: the wait on m_cvNotFull does not look at m_running
SinkMayEnqueue_NoStop == Len(m_queue) < m_options.queueCapacity

\* the predicate of m_cvNotFull.wait in OnMessage
SinkMayEnqueue == ~m_running \/ Len(m_queue) < m_options.queueCapacity

\* the predicate of m_cvNotEmpty.wait in WorkerLoop
SinkMayDequeue == ~m_running \/ m_queue # <<>>

\* mutant: the sink's thread leaves as soon as the sink is shutting down
SinkWorkerStops_IgnoreQueue == ~m_running

\* WorkerLoop's break test
SinkWorkerStops == ~m_running /\ m_queue = <<>>

\* mutant: WorkerLoop takes the newest record
SinkFront_Back(q) == q[Len(q)]

\* m_queue.front()
SinkFront(q) == Head(q)

WaitingProducers == {r \in Records : ppc[r] = "waiting"}

\* the size in bytes of a file, a sequence of <<record, size, generation>> lines
RECURSIVE FileBytes(_)
FileBytes(f) == IF f = <<>> THEN 0 ELSE Head(f)[2] + FileBytes(Tail(f))

\* FileSink::OpenFile on disk d, ok telling whether m_stream.open succeeds:
\* the file is opened for append (created when absent) and m_currentSize is
\* its size; after a failure the stream is closed and m_currentSize is 0
OpenFile(d, ok) ==
    IF ok
    THEN LET f == IF 0 \in DOMAIN d THEN d[0] ELSE <<>>
         IN [isOpen |-> TRUE,
             disk |-> [i \in DOMAIN d \cup {0} |-> IF i = 0 THEN f ELSE d[i]],
             size |-> FileBytes(f)]
    ELSE [isOpen |-> FALSE, disk |-> d, size |-> 0]

\* mutant: the rename does nothing
Rename_Lost(d, i) == d

\* std::filesystem::rename(path.i, path.(i+1)); path.0 is path
Rename(d, i) ==
    [j \in (DOMAIN d \ {i}) \cup {i + 1} |-> IF j = i + 1 THEN d[i] ELSE d[j]]

\* the loop of RotateIfNeeded from index i down to 0: every file that exists
\* moves one suffix up
RECURSIVE RenameChain(_, _)
RenameChain(d, i) ==
    IF i < 0 THEN d
    ELSE RenameChain(IF i \in DOMAIN d THEN Rename(d, i) ELSE d, i - 1)

\* mutant: RotateIfNeeded also returns when the record exactly fills the file
ShouldRotate_WhenExceeding(open, size, messageSize) ==
    /\ m_options.maxBytes # 0
    /\ open
    /\ m_options.maxFiles # 0
    /\ ~(size + messageSize <= m_options.maxBytes)

\* RotateIfNeeded gets past its three early returns
ShouldRotate(open, size, messageSize) ==
    /\ m_options.maxBytes # 0
    /\ open
    /\ m_options.maxFiles # 0
    /\ ~(size + messageSize < m_options.maxBytes)

\* the records of all files, oldest file first
RECURSIVE DiskRecordsFrom(_)
DiskRecordsFrom(i) ==
    IF i < 0 THEN <<>>
    ELSE (IF i \in DOMAIN disk THEN [k \in 1..Len(disk[i]) |-> disk[i][k][1]] ELSE <<>>)
         \o DiskRecordsFrom(i - 1)

DiskRecords == DiskRecordsFrom(m_options.maxFiles)

\* no ThreadPool has been constructed
NoThreadPool ==
    /\ m_maxQueueSize = 1
    /\ m_threadCount = 1
    /\ m_tasks = <<>>
    /\ m_stopping = FALSE
    /\ state = [t \in AllTasks |-> "NoState"]
    /\ value = [t \in AllTasks |-> FALSE]
    /\ exception = [t \in AllTasks |-> FALSE]
    /\ wpc = [w \in Workers |-> "absent"]
    /\ wtask = [w \in Workers |-> NoTask]
    /\ spc = [t \in AllTasks |-> "idle"]
    /\ sdpc = [c \in Callers \cup {SecondCall} |-> "idle"]
    /\ cancelRet = NoCall
    /\ invoked = [t \in AllTasks |-> FALSE]
    /\ popped = <<>>
    /\ discarded = {}
    /\ stopper = 0
    /\ stopWait = TRUE
    /\ stopQueue = <<>>
    /\ enqueued = <<>>
    /\ gpc = [t \in AllTasks |-> "idle"]

\* the Options a FileSink is constructed with
SinkOptions == [queueCapacity : 0..MaxQueueCapacity,
                maxBytes : 0..MaxBytes,
                maxFiles : 0..MaxFiles]

\* the sink after FileSink(options): OpenFile() in a directory that holds no
\* log file yet, then the thread is started
FileSinkInit(options) ==
    /\ m_options \in options
    /\ m_running = TRUE
    /\ m_queue = <<>>
    /\ \E ok \in BOOLEAN :
         LET o == OpenFile(<<>>, ok)
         IN /\ isOpen = o.isOpen
            /\ disk = o.disk
            /\ m_currentSize = o.size
    /\ ppc = [r \in Records |-> "idle"]
    /\ lpc = "wait"
    /\ rec = NoRecord
    /\ cpc = [c \in SinkCallers |-> "idle"]
    /\ sinkEnqueued = <<>>
    /\ sinkWritten = <<>>
    /\ sinkStopper = 0
    /\ sinkStopQueue = <<>>
    /\ rotations = 0

SinkInit == NoThreadPool /\ FileSinkInit(SinkOptions) /\ NoLogCalls

threadingVars == <<poolVars, futVars, thrVars, histVars, gpc>>

\* ------------------------------------------------------------- OnMessage
\* the call is made and builds its Record, before it takes m_mutex
OnMessageBegin(r) ==
    /\ ppc[r] = "idle"
    /\ \A q \in Records : q < r => ppc[q] # "idle"
    /\ ppc' = [ppc EXCEPT ![r] = "called"]
    /\ UNCHANGED <<m_options, m_running, m_queue, m_currentSize, isOpen, disk,
                   lpc, rec, cpc, sinkEnqueued, sinkWritten, sinkStopper, sinkStopQueue, rotations>>
    /\ UNCHANGED <<threadingVars, logVars>>

\* one pass through the locked part of OnMessage: on entry or after a wake-up
\* from m_cvNotFull
OnMessage(r) ==
    /\ ppc[r] \in {"called", "retry"}
    /\ IF SinkMayEnqueue
       THEN IF ~m_running
            THEN /\ ppc' = [ppc EXCEPT ![r] = "dropped"]
                 /\ UNCHANGED <<m_queue, sinkEnqueued, lpc>>
            ELSE /\ m_queue' = Append(m_queue, r)
                 /\ sinkEnqueued' = Append(sinkEnqueued, r)
                 /\ lpc' = IF lpc = "parked" THEN "wait" ELSE lpc
                 /\ ppc' = [ppc EXCEPT ![r] = "returned"]
       ELSE /\ ppc' = [ppc EXCEPT ![r] = "waiting"]
            /\ UNCHANGED <<m_queue, sinkEnqueued, lpc>>
    /\ UNCHANGED <<m_options, m_running, m_currentSize, isOpen, disk,
                   rec, cpc, sinkWritten, sinkStopper, sinkStopQueue, rotations>>
    /\ UNCHANGED <<threadingVars, logVars>>

\* ------------------------------------------------------------- WorkerLoop
\* the locked block of WorkerLoop
SinkDequeue ==
    /\ lpc = "wait"
    /\ IF SinkMayDequeue
       THEN IF SinkWorkerStops
            THEN /\ lpc' = "exited"
                 /\ UNCHANGED <<m_queue, rec, ppc>>
            ELSE /\ rec' = SinkFront(m_queue)
                 /\ m_queue' = Tail(m_queue)
                 /\ lpc' = "write"
                 /\ IF WaitingProducers = {}
                    THEN ppc' = ppc
                    ELSE \E r \in WaitingProducers : ppc' = [ppc EXCEPT ![r] = "retry"]
       ELSE /\ lpc' = "parked"
            /\ UNCHANGED <<m_queue, rec, ppc>>
    /\ UNCHANGED <<m_options, m_running, m_currentSize, isOpen, disk,
                   cpc, sinkEnqueued, sinkWritten, sinkStopper, sinkStopQueue, rotations>>
    /\ UNCHANGED <<threadingVars, logVars>>

\* the rest of the loop body for a record of messageSize bytes: open the file
\* if it is closed (reopens tells whether that open succeeds), give the record
\* up if it stays closed, else rotate if needed (rotateOpens tells whether the
\* open after the renames succeeds) and write the line
SinkWrite(messageSize, reopens, rotateOpens) ==
    /\ lpc = "write"
    /\ LET o == IF isOpen
                THEN [isOpen |-> TRUE, disk |-> disk, size |-> m_currentSize]
                ELSE OpenFile(disk, reopens)
       IN IF ~o.isOpen
          THEN /\ isOpen' = FALSE
               /\ disk' = o.disk
               /\ m_currentSize' = o.size
               /\ UNCHANGED <<sinkWritten, rotations>>
          ELSE LET rotates == ShouldRotate(o.isOpen, o.size, messageSize)
                   n == IF rotates
                        THEN [OpenFile(RenameChain(o.disk, m_options.maxFiles - 1),
                                       rotateOpens) EXCEPT !.size = 0]
                        ELSE o
               IN /\ rotations' = IF rotates THEN rotations + 1 ELSE rotations
                  /\ isOpen' = n.isOpen
                  /\ m_currentSize' = n.size + messageSize
                  /\ disk' = IF n.isOpen
                             THEN [n.disk EXCEPT
                                     ![0] = Append(@, <<rec, messageSize, rotations'>>)]
                             ELSE n.disk
                  /\ sinkWritten' = IF n.isOpen THEN Append(sinkWritten, rec)
                                    ELSE sinkWritten
    /\ lpc' = "wait"
    /\ rec' = NoRecord
    /\ UNCHANGED <<m_options, m_running, m_queue, ppc, cpc,
                   sinkEnqueued, sinkStopper, sinkStopQueue>>
    /\ UNCHANGED <<threadingVars, logVars>>

\* ------------------------------------------------------------- FileSink::Shutdown
\* the locked block of Shutdown
SinkShutdown(c) ==
    /\ cpc[c] = "idle"
    /\ \A d \in SinkCallers : d < c => cpc[d] # "idle"
    /\ IF ~m_running
       THEN /\ cpc' = [cpc EXCEPT ![c] = "returned"]
            /\ UNCHANGED <<m_running, sinkStopper, sinkStopQueue>>
       ELSE /\ m_running' = FALSE
            /\ sinkStopper' = c
            /\ sinkStopQueue' = m_queue
            /\ cpc' = [cpc EXCEPT ![c] = "notify"]
    /\ UNCHANGED <<m_options, m_queue, m_currentSize, isOpen, disk,
                   ppc, lpc, rec, sinkEnqueued, sinkWritten, rotations>>
    /\ UNCHANGED <<threadingVars, logVars>>

\* m_cvNotEmpty.notify_all(); m_cvNotFull.notify_all();
SinkShutdownNotify(c) ==
    /\ cpc[c] = "notify"
    /\ lpc' = IF lpc = "parked" THEN "wait" ELSE lpc
    /\ ppc' = [r \in Records |-> IF ppc[r] = "waiting" THEN "retry" ELSE ppc[r]]
    /\ cpc' = [cpc EXCEPT ![c] = "join"]
    /\ UNCHANGED <<m_options, m_running, m_queue, m_currentSize, isOpen, disk,
                   rec, sinkEnqueued, sinkWritten, sinkStopper, sinkStopQueue, rotations>>
    /\ UNCHANGED <<threadingVars, logVars>>

\* m_thread.join() has returned; CloseFile()
SinkShutdownJoin(c) ==
    /\ cpc[c] = "join"
    /\ lpc = "exited"
    /\ isOpen' = FALSE
    /\ cpc' = [cpc EXCEPT ![c] = "returned"]
    /\ UNCHANGED <<m_options, m_running, m_queue, m_currentSize, disk,
                   ppc, lpc, rec, sinkEnqueued, sinkWritten, sinkStopper, sinkStopQueue, rotations>>
    /\ UNCHANGED <<threadingVars, logVars>>

\* ------------------------------------------------------------- spurious wake-ups
SpuriousWakeSink ==
    /\ lpc = "parked"
    /\ lpc' = "wait"
    /\ UNCHANGED <<m_options, m_running, m_queue, m_currentSize, isOpen, disk,
                   ppc, rec, cpc, sinkEnqueued, sinkWritten, sinkStopper, sinkStopQueue, rotations>>
    /\ UNCHANGED <<threadingVars, logVars>>

SpuriousWakeOnMessage(r) ==
    /\ ppc[r] = "waiting"
    /\ ppc' = [ppc EXCEPT ![r] = "retry"]
    /\ UNCHANGED <<m_options, m_running, m_queue, m_currentSize, isOpen, disk,
                   lpc, rec, cpc, sinkEnqueued, sinkWritten, sinkStopper, sinkStopQueue, rotations>>
    /\ UNCHANGED <<threadingVars, logVars>>

\* ------------------------------------------------------------- specification
SinkWorkerStep ==
    \/ SinkDequeue
    \/ \E messageSize \in 1..MaxRecordSize, reopens \in BOOLEAN, rotateOpens \in BOOLEAN :
           SinkWrite(messageSize, reopens, rotateOpens)

SinkNext ==
    \/ \E r \in Records : OnMessageBegin(r)
    \/ \E r \in Records : OnMessage(r)
    \/ SinkWorkerStep
    \/ \E c \in SinkCallers : SinkShutdown(c)
    \/ \E c \in SinkCallers : SinkShutdownNotify(c)
    \/ \E c \in SinkCallers : SinkShutdownJoin(c)
    \/ SpuriousWakeSink
    \/ \E r \in Records : SpuriousWakeOnMessage(r)

SinkSpec == SinkInit /\ [][SinkNext]_vars

\* weak fairness of every thread of the sink that is runnable
FairSinkSpec ==
    /\ SinkSpec
    /\ WF_vars(SinkWorkerStep)
    /\ \A r \in Records : WF_vars(OnMessage(r))
    /\ \A c \in SinkCallers : WF_vars(SinkShutdownNotify(c)) /\ WF_vars(SinkShutdownJoin(c))

\* the Shutdown call that cleared m_running has returned
SinkStopperReturned == sinkStopper # 0 /\ cpc[sinkStopper] = "returned"

\* ------------------------------------------------------------- one logging thread
\* a whole OnMessage call of the one thread that logs line after line: the sink
\* is running and the queue has room (a call that finds it full waits for the
\* pop), so the call enqueues the next line, notifies m_cvNotEmpty and returns
OnMessageCall(r) ==
    /\ r = Len(sinkEnqueued) + 1
    /\ m_running
    /\ Len(m_queue) < m_options.queueCapacity
    /\ m_queue' = Append(m_queue, r)
    /\ sinkEnqueued' = Append(sinkEnqueued, r)
    /\ lpc' = IF lpc = "parked" THEN "wait" ELSE lpc
    /\ UNCHANGED <<m_options, m_running, m_currentSize, isOpen, disk, ppc,
                   rec, cpc, sinkWritten, sinkStopper, sinkStopQueue, rotations>>
    /\ UNCHANGED <<threadingVars, logVars>>

\* the Options of the sink that one thread feeds
RotationOptions == [queueCapacity : {1},
                    maxBytes : 0..MaxBytes,
                    maxFiles : 0..MaxRotatedFiles]

RotationInit == NoThreadPool /\ FileSinkInit(RotationOptions) /\ NoLogCalls

RotationNext ==
    \/ \E r \in Lines : OnMessageCall(r)
    \/ SinkWorkerStep
    \/ SpuriousWakeSink

\* the sink fed by one thread and never shut down: the file part of WorkerLoop
\* applied to NumLines records in a row
RotationSpec == RotationInit /\ [][RotationNext]_vars

\* the backup files path.1, path.2, ...
Backups == DOMAIN disk \ {0}

\* the disk the loop body of WorkerLoop works on once the stream is open
OpenedDisk == IF isOpen THEN disk ELSE OpenFile(disk, TRUE).disk

\* the tracked size the loop body of WorkerLoop works with once the stream is open
OpenedSize == IF isOpen THEN m_currentSize ELSE OpenFile(disk, TRUE).size

\* ============================================================= fmt::format
\* strings are sequences of characters; "a" stands for any character that is
\* not a brace, "v" for the text FormatOne produces for one argument
Chars == {"{", "}", "a"}
FmtStrings == UNION {[1..n -> Chars] : n \in 0..MaxFmtLen}
ArgText == <<"v">>

\* std::string_view::find: the first position >= from where pattern begins,
\* 0 (npos) when there is none; positions count from 1
Find(str, pattern, from) ==
    LET hits == {i \in from..(Len(str) - Len(pattern) + 1) :
                   SubSeq(str, i, i + Len(pattern) - 1) = pattern}
    IN IF hits = {} THEN 0 ELSE CHOOSE i \in hits : \A j \in hits : i <= j

\* fmt.substr(pos): the rest of the string from pos on
Substr(str, pos) == SubSeq(str, pos, Len(str))

\* the loop of AppendLiteral from index i on: every "}}" becomes "}"
RECURSIVE AppendLiteralFrom(_, _, _)
AppendLiteralFrom(out, literal, i) ==
    IF i > Len(literal) THEN out
    ELSE LET pos == Find(literal, <<"}", "}">>, i)
         IN IF pos = 0
            THEN out \o Substr(literal, i)
            ELSE AppendLiteralFrom(out \o SubSeq(literal, i, pos - 1) \o <<"}">>,
                                   literal, pos + 2)

\* detail::AppendLiteral
AppendLiteral(out, literal) == AppendLiteralFrom(out, literal, 1)

\* detail::ReplaceNextPlaceholder: out and pos as it leaves them, whether it
\* returned true, and whether it threw instead of returning
RECURSIVE ReplaceNextPlaceholder(_, _, _)
ReplaceNextPlaceholder(out, fmt, pos) ==
    IF pos > Len(fmt)
    THEN [out |-> out, pos |-> pos, found |-> FALSE, threw |-> FALSE]
    ELSE LET open == Find(fmt, <<"{">>, pos)
         IN IF open = 0
            THEN [out |-> AppendLiteral(out, Substr(fmt, pos)), pos |-> Len(fmt) + 1,
                  found |-> FALSE, threw |-> FALSE]
            ELSE LET lit == AppendLiteral(out, SubSeq(fmt, pos, open - 1))
                 IN IF open + 1 <= Len(fmt) /\ fmt[open + 1] = "{"
                    THEN ReplaceNextPlaceholder(Append(lit, "{"), fmt, open + 2)
                    ELSE LET close == Find(fmt, <<"}">>, open + 1)
                         IN IF close = 0
                            THEN [out |-> lit, pos |-> pos, found |-> FALSE,
                                  threw |-> TRUE]
                            ELSE [out |-> lit, pos |-> close + 1, found |-> TRUE,
                                  threw |-> FALSE]

\* detail::FormatOne: the text of the argument is appended
FormatOne(out) == out \o ArgText

\* detail::FormatImpl with nargs arguments left: the overload without
\* arguments appends the rest as a literal; the other one looks for the next
\* placeholder, formats its first argument into it when there is one, and goes
\* on with the remaining arguments
RECURSIVE FormatImpl(_, _, _, _)
FormatImpl(out, fmt, pos, nargs) ==
    IF nargs = 0
    THEN [threw |-> FALSE, text |-> AppendLiteral(out, Substr(fmt, pos))]
    ELSE LET r == ReplaceNextPlaceholder(out, fmt, pos)
         IN IF r.threw THEN [threw |-> TRUE, text |-> <<>>]
            ELSE IF r.found THEN FormatImpl(FormatOne(r.out), fmt, r.pos, nargs - 1)
            ELSE FormatImpl(r.out, fmt, r.pos, nargs - 1)

\* fmt::format(fmtStr, args...)
format(fmtStr, nargs) == FormatImpl(<<>>, fmtStr, 1, nargs)

\* a call fmt::format(fmtStr, args...) is about to be made
FormatInit ==
    fmtCall \in [fmtStr : FmtStrings, nargs : 0..MaxArgs, pc : {"call"}, result : {<<>>}]

\* the call returns its string or throws std::runtime_error
FormatCall ==
    /\ fmtCall.pc = "call"
    /\ LET r == format(fmtCall.fmtStr, fmtCall.nargs)
       IN fmtCall' = [fmtCall EXCEPT !.pc = IF r.threw THEN "threw" ELSE "returned",
                                      !.result = r.text]
    /\ UNCHANGED <<threadingVars, sinkVars, inst, lw, lsd, lk>>

\* one call of fmt::format, nothing else constructed
FmtInit == NoThreadPool /\ NoFileSink /\ LoggerInit(<<DefaultSinkId>>) /\ FormatInit

FmtNext == FormatCall

FmtSpec == FmtInit /\ [][FmtNext]_vars

\* ============================================================= Log facade
\* mutant: a message at exactly the runtime level is suppressed
IsLevelEnabled_Strict(level) == level > inst.runtimeLevel

\* Log::IsLevelEnabled
IsLevelEnabled(level) == level >= inst.runtimeLevel

\* mutant: a category nobody has set is disabled
IsCategoryEnabled_DefaultOff(category) ==
    IF category = NoCategory THEN TRUE
    ELSE inst.categoryEnabled[category] = "true"

\* Log::IsCategoryEnabled
IsCategoryEnabled(category) ==
    IF category = NoCategory THEN TRUE
    ELSE IF inst.categoryEnabled[category] = "absent" THEN TRUE
    ELSE inst.categoryEnabled[category] = "true"

\* mutant: Submit walks its copy from the back
NextSink_FromBack(snapshot, handed) == snapshot[Len(snapshot) - Len(handed)]

\* the range-for of Log::Submit over sinksCopy: the sink whose turn it is
NextSink(snapshot, handed) == snapshot[Len(handed) + 1]

\* the format strings the Write calls are made with
LogFmtStrings == {f \in FmtStrings : Len(f) <= 1}

\* Log::SetLevel
SetLevel(level) ==
    /\ inst' = [inst EXCEPT !.runtimeLevel = level]
    /\ UNCHANGED <<threadingVars, sinkVars, fmtCall, lw, lsd, lk>>

\* Log::SetCategoryEnabled
SetCategoryEnabled(category, enabled) ==
    /\ inst' = [inst EXCEPT !.categoryEnabled[category] =
                              IF enabled THEN "true" ELSE "false"]
    /\ UNCHANGED <<threadingVars, sinkVars, fmtCall, lw, lsd, lk>>

\* Log::AddSink; the application registers its sinks in the order of their ids
AddSink(sink) ==
    /\ \A other \in Range(inst.sinks) : other < sink
    /\ inst' = [inst EXCEPT !.sinks = Append(@, sink)]
    /\ UNCHANGED <<threadingVars, sinkVars, fmtCall, lw, lsd, lk>>

\* Log::ClearSinks
ClearSinks ==
    /\ inst' = [inst EXCEPT !.sinks = <<>>]
    /\ UNCHANGED <<threadingVars, sinkVars, fmtCall, lw, lsd, lk>>

\* Log::UseDefaultSinks
UseDefaultSinks ==
    /\ inst' = [inst EXCEPT !.sinks = <<DefaultSinkId>>]
    /\ UNCHANGED <<threadingVars, sinkVars, fmtCall, lw, lsd, lk>>

\* if (auto fileSink = std::dynamic_pointer_cast<FileSink>(sink))
IsFileSink(sink) == sink = FileSinkId

\* the locked block of Log::Shutdown: sinksCopy = inst.sinks; inst.sinks.clear().
\* A copy without a FileSink leaves nothing to do and the call returns
LogShutdown(c) ==
    /\ lsd[c].pc = "idle"
    /\ cpc[c] = "idle"
    /\ inst' = [inst EXCEPT !.sinks = <<>>]
    /\ IF FileSinkId \in Range(inst.sinks)
       THEN /\ lsd' = [lsd EXCEPT ![c] = [pc |-> "sinks",
                                           fileSinks |-> SelectSeq(inst.sinks, IsFileSink)]]
            /\ cpc' = cpc
       ELSE /\ lsd' = [lsd EXCEPT ![c] = [pc |-> "returned", fileSinks |-> <<>>]]
            /\ cpc' = [cpc EXCEPT ![c] = "none"]
    /\ UNCHANGED <<m_options, m_running, m_queue, m_currentSize, isOpen, disk,
                   ppc, lpc, rec, sinkEnqueued, sinkWritten, sinkStopper,
                   sinkStopQueue, rotations>>
    /\ UNCHANGED <<threadingVars, fmtCall, lw, lk>>

\* the loop of Log::Shutdown: fileSink->Shutdown() is FileSink::Shutdown call c
\* (SinkShutdown(c) and what follows it); once that has returned, so does
\* Log::Shutdown
LogShutdownReturn(c) ==
    /\ lsd[c].pc = "sinks"
    /\ cpc[c] = "returned"
    /\ lsd' = [lsd EXCEPT ![c].pc = "returned"]
    /\ UNCHANGED <<threadingVars, sinkVars, fmtCall, inst, lw, lk>>

\* Log::Write(level, category, loc, fmtStr, args...) is called
WriteBegin(w, level, category) ==
    /\ lw[w].pc = "idle"
    /\ \A v \in Writes : v < w => lw[v].pc # "idle"
    /\ lw' = [lw EXCEPT ![w].pc = "level", ![w].level = level, ![w].category = category]
    /\ UNCHANGED <<threadingVars, sinkVars, fmtCall, inst, lsd, lk>>

\* if (!IsLevelEnabled(level)) return;
WriteCheckLevel(w) ==
    /\ lw[w].pc = "level"
    /\ lw' = [lw EXCEPT ![w].pc = IF IsLevelEnabled(lw[w].level) THEN "category"
                                  ELSE "filtered"]
    /\ UNCHANGED <<threadingVars, sinkVars, fmtCall, inst, lsd, lk>>

\* if (!category.empty() && !IsCategoryEnabled(category)) return;
WriteCheckCategory(w) ==
    /\ lw[w].pc = "category"
    /\ lw' = [lw EXCEPT ![w].pc =
                IF lw[w].category # NoCategory /\ ~IsCategoryEnabled(lw[w].category)
                THEN "filtered" ELSE "format"]
    /\ UNCHANGED <<threadingVars, sinkVars, fmtCall, inst, lsd, lk>>

\* std::string text = fmt::format(fmtStr, args...); an exception of fmt::format
\* leaves Write, which has no handler
WriteFormat(w, fmtStr, nargs) ==
    /\ lw[w].pc = "format"
    /\ lw' = [lw EXCEPT ![w].pc = IF format(fmtStr, nargs).threw THEN "threw"
                                  ELSE "submit"]
    /\ UNCHANGED <<threadingVars, sinkVars, fmtCall, inst, lsd, lk>>

\* the locked block of Log::Submit: sinksCopy = inst.sinks; a call whose copy
\* is empty returns
WriteSubmit(w) ==
    /\ lw[w].pc = "submit"
    /\ lw' = [lw EXCEPT ![w].pc = IF inst.sinks = <<>> THEN "returned" ELSE "deliver",
                        ![w].snapshot = inst.sinks]
    /\ UNCHANGED <<threadingVars, sinkVars, fmtCall, inst, lsd, lk>>

\* one round of the range-for of Log::Submit: sink->OnMessage(msg); after the
\* last sink of the copy the call returns
WriteDeliver(w) ==
    /\ lw[w].pc = "deliver"
    /\ LET handed == Append(lw[w].handed, NextSink(lw[w].snapshot, lw[w].handed))
       IN lw' = [lw EXCEPT ![w].handed = handed,
                           ![w].pc = IF Len(handed) = Len(lw[w].snapshot)
                                     THEN "returned" ELSE "deliver"]
    /\ UNCHANGED <<threadingVars, sinkVars, fmtCall, inst, lsd, lk>>

\* the steps of a Log::Write call that has begun
WriteStep(w) ==
    \/ WriteCheckLevel(w)
    \/ WriteCheckCategory(w)
    \/ \E fmtStr \in LogFmtStrings, nargs \in 0..MaxArgs : WriteFormat(w, fmtStr, nargs)
    \/ WriteSubmit(w)
    \/ WriteDeliver(w)

\* the facade without a FileSink
LogInit ==
    NoThreadPool /\ NoFileSink /\ NoFormatCall /\ LoggerInit(<<DefaultSinkId>>)

\* Write calls of every level, without category, while the level is being set
LogLevelNext ==
    \/ \E level \in Level : SetLevel(level)
    \/ \E w \in Writes, level \in Level : WriteBegin(w, level, NoCategory)
    \/ \E w \in Writes : WriteStep(w)

LogLevelSpec == LogInit /\ [][LogLevelNext]_vars

\* Write calls of every level and category while categories are being
\* disabled and enabled
LogCategoryNext ==
    \/ \E category \in Categories, enabled \in BOOLEAN :
           SetCategoryEnabled(category, enabled)
    \/ \E w \in Writes, level \in Level, category \in Categories \cup {NoCategory} :
           WriteBegin(w, level, category)
    \/ \E w \in Writes : WriteStep(w)

LogCategorySpec == LogInit /\ [][LogCategoryNext]_vars

\* Write calls (LOG_INFO without category) while sinks are registered and removed
LogSinksNext ==
    \/ \E sink \in UserSinks : AddSink(sink)
    \/ ClearSinks
    \/ UseDefaultSinks
    \/ \E c \in SinkCallers : LogShutdown(c)
    \/ \E w \in Writes : WriteBegin(w, Info, NoCategory)
    \/ \E w \in Writes : WriteStep(w)

LogSinksSpec == LogInit /\ [][LogSinksNext]_vars

\* the Options of the FileSink registered with the facade
LogSinkOptions == [queueCapacity : {1}, maxBytes : {0}, maxFiles : {0}]

\* Log::Shutdown calls on a facade whose sinks are the ConsoleSink and one
\* FileSink, which threads also use directly (OnMessage calls of Log::Submit
\* that hold a copy with the sink, FileSink::Shutdown calls)
LogShutdownNext ==
    \/ SinkNext
    \/ \E c \in SinkCallers : LogShutdown(c)
    \/ \E c \in SinkCallers : LogShutdownReturn(c)

LogShutdownInit ==
    /\ NoThreadPool /\ FileSinkInit(LogSinkOptions) /\ NoFormatCall
    /\ LoggerInit(<<DefaultSinkId, FileSinkId>>)

LogShutdownSpec == LogShutdownInit /\ [][LogShutdownNext]_vars

\* ------------------------------------------------------------- mutexes
\* The operations of the pool, of the Futures, of the FileSink and of the
\* facade, reduced to what they do with the mutexes: ThreadPool::m_mutex
\* ("pool"), SharedStateBase::mutex ("state"), FileSink::m_mutex ("sink"),
\* LoggerInstance::mutex ("facade").
Mutexes == {"pool", "state", "sink", "facade"}
LockThreads == 1..NumLockThreads

\* one step: "acq" locks the mutex, "rel" unlocks it, "park" is the unlock
\* inside condition_variable::wait and "wake" the lock that ends that wait,
\* "run" is code that touches no mutex, "join" is thread::join; code tells
\* whose code is running ("lib", "callable" or "OnMessage")
LockStep(kind, mutex) == [kind |-> kind, mutex |-> mutex, code |-> "lib"]
NoStep == LockStep("none", "none")

\* std::lock_guard<std::mutex> lock(m) around a block
Locked(m) == <<LockStep("acq", m), LockStep("rel", m)>>

\* std::unique_lock<std::mutex> lock(m); cv.wait(lock, pred); ... end of block
Waited(m) ==
    <<LockStep("acq", m), LockStep("park", m), LockStep("wake", m), LockStep("rel", m)>>

\* the steps of prog, made by the code of the given kind
CodeOf(code, prog) == [i \in DOMAIN prog |-> [prog[i] EXCEPT !.code = code]]

\* TryCancel, IsCancelled, IsDone, MarkRunning, MarkFailed, NotifyReady,
\* SetValue, Future::IsReady, Future::GetState, Future::Cancel
SharedStateLocks == Locked("state")

\* Future::Wait
WaitLocks == Waited("state")

\* Future::Get
GetLocks == WaitLocks \o Locked("state")

\* ThreadPool::Submit that enqueues
SubmitLocks == Waited("pool")

\* ThreadPool::Submit that finds m_stopping: state->TryCancel() in the block
SubmitStoppingLocks ==
    <<LockStep("acq", "pool"), LockStep("park", "pool"), LockStep("wake", "pool")>>
    \o SharedStateLocks \o <<LockStep("rel", "pool")>>

\* the callable of a submitted task, run with MarkRunning's lock still held
WorkerLoopLocks_RunLocked ==
    Waited("pool") \o SharedStateLocks
    \o <<LockStep("acq", "state")>> \o CodeOf("callable", <<LockStep("run", "none")>>)
    \o <<LockStep("rel", "state")>> \o SharedStateLocks

\* one round of ThreadPool::WorkerLoop: Dequeue, then the closure of Submit:
\* IsCancelled, MarkRunning, fn(), SetValue or MarkFailed
WorkerLoopLocks ==
    Waited("pool") \o SharedStateLocks \o SharedStateLocks
    \o CodeOf("callable", <<LockStep("run", "none")>>) \o SharedStateLocks

\* one round of ThreadPool::WorkerLoop on a cancelled task: IsCancelled,
\* NotifyReady
WorkerLoopCancelledLocks == Waited("pool") \o SharedStateLocks \o SharedStateLocks

\* CancelAllPending that takes the mutex of the task before the mutex of the pool
CancelAllPendingLocks_StateFirst ==
    <<LockStep("acq", "state")>> \o Locked("pool") \o <<LockStep("rel", "state")>>

\* ThreadPool::CancelAllPending with a task queued
CancelAllPendingLocks ==
    <<LockStep("acq", "pool")>> \o SharedStateLocks \o <<LockStep("rel", "pool")>>

\* ThreadPool::Shutdown(false) with a task queued
ShutdownNowLocks ==
    <<LockStep("acq", "pool")>> \o SharedStateLocks
    \o <<LockStep("rel", "pool"), LockStep("join", "none")>>

\* ThreadPool::Shutdown(true), or Shutdown(false) on an empty queue
ShutdownLocks == Locked("pool") \o <<LockStep("join", "none")>>

\* ThreadPool::GetQueueSize, and the Shutdown that finds m_stopping
GetQueueSizeLocks == Locked("pool")

\* FileSink::OnMessage
FileSinkOnMessageLocks == Waited("sink")

\* one round of FileSink::WorkerLoop: the block that pops, then the write
FileSinkWorkerLocks == Waited("sink") \o <<LockStep("run", "none")>>

\* FileSink::Shutdown, ~FileSink
FileSinkShutdownLocks == Locked("sink") \o <<LockStep("join", "none")>>

\* SetLevel, GetLevel, SetCategoryEnabled, IsCategoryEnabled, AddSink,
\* IsLevelEnabled, and ClearSinks / UseDefaultSinks that destroy no FileSink
FacadeLocks == Locked("facade")

\* ClearSinks / UseDefaultSinks whose clear() destroys a FileSink
ClearSinksLocks ==
    <<LockStep("acq", "facade")>> \o FileSinkShutdownLocks \o <<LockStep("rel", "facade")>>

\* Log::Shutdown with a FileSink registered
LogShutdownLocks == Locked("facade") \o FileSinkShutdownLocks

\* Log::Submit with a ConsoleSink and a FileSink registered
LogSubmitLocks ==
    Locked("facade")
    \o CodeOf("OnMessage", <<LockStep("run", "none")>> \o FileSinkOnMessageLocks)

\* Log::Write: IsLevelEnabled, IsCategoryEnabled, Submit
LogWriteLocks == FacadeLocks \o FacadeLocks \o LogSubmitLocks

LockOps ==
    {"SharedState", "Wait", "Get", "Submit", "SubmitStopping", "WorkerLoop",
     "WorkerLoopCancelled", "CancelAllPending", "ShutdownNow", "Shutdown",
     "GetQueueSize", "FileSinkWorker", "FileSinkShutdown", "Facade",
     "ClearSinks", "LogShutdown", "LogWrite"}

LockProgram(op) ==
    CASE op = "SharedState" -> SharedStateLocks
      [] op = "Wait" -> WaitLocks
      [] op = "Get" -> GetLocks
      [] op = "Submit" -> SubmitLocks
      [] op = "SubmitStopping" -> SubmitStoppingLocks
      [] op = "WorkerLoop" -> WorkerLoopLocks
      [] op = "WorkerLoopCancelled" -> WorkerLoopCancelledLocks
      [] op = "CancelAllPending" -> CancelAllPendingLocks
      [] op = "ShutdownNow" -> ShutdownNowLocks
      [] op = "Shutdown" -> ShutdownLocks
      [] op = "GetQueueSize" -> GetQueueSizeLocks
      [] op = "FileSinkWorker" -> FileSinkWorkerLocks
      [] op = "FileSinkShutdown" -> FileSinkShutdownLocks
      [] op = "Facade" -> FacadeLocks
      [] op = "ClearSinks" -> ClearSinksLocks
      [] op = "LogShutdown" -> LogShutdownLocks
      [] op = "LogWrite" -> LogWriteLocks

\* the mutexes a thread holds before step pos of prog
HeldAt(prog, pos) ==
    {m \in Mutexes :
        \E i \in 1..(pos - 1) :
            /\ prog[i].kind \in {"acq", "wake"}
            /\ prog[i].mutex = m
            /\ \A j \in (i + 1)..(pos - 1) :
                   ~(prog[j].kind \in {"rel", "park"} /\ prog[j].mutex = m)}

Idle == [op |-> "none", pos |-> 0]

HeldBy(t) ==
    IF lk[t].op = "none" THEN {} ELSE HeldAt(LockProgram(lk[t].op), lk[t].pos)

\* the step thread t is about to make
LockAt(t) == IF lk[t].op = "none" THEN NoStep ELSE LockProgram(lk[t].op)[lk[t].pos]

\* thread t has made its step
Advance(t) ==
    /\ lk' = [lk EXCEPT ![t] = IF lk[t].pos = Len(LockProgram(lk[t].op))
                               THEN Idle
                               ELSE [lk[t] EXCEPT !.pos = @ + 1]]
    /\ UNCHANGED <<threadingVars, sinkVars, fmtCall, inst, lw, lsd>>

\* thread t calls an operation
LockCall(t, op) ==
    /\ lk[t].op = "none"
    /\ lk' = [lk EXCEPT ![t] = [op |-> op, pos |-> 1]]
    /\ UNCHANGED <<threadingVars, sinkVars, fmtCall, inst, lw, lsd>>

\* std::mutex::lock: blocks while any thread holds the mutex
LockAcquire(t) ==
    /\ LockAt(t).kind \in {"acq", "wake"}
    /\ \A u \in LockThreads : LockAt(t).mutex \notin HeldBy(u)
    /\ Advance(t)

\* std::mutex::unlock, at the end of a block or inside wait
LockRelease(t) ==
    /\ LockAt(t).kind \in {"rel", "park"}
    /\ Advance(t)

\* wait(lock, pred) that finds pred true and does not unlock
LockSkipWait(t) ==
    /\ LockAt(t).kind = "park"
    /\ lk' = [lk EXCEPT ![t].pos = @ + 2]
    /\ UNCHANGED <<threadingVars, sinkVars, fmtCall, inst, lw, lsd>>

\* code that takes no mutex comes to its end
LockRun(t) ==
    /\ LockAt(t).kind \in {"run", "join"}
    /\ Advance(t)

LockInit ==
    /\ NoThreadPool /\ NoFileSink /\ NoFormatCall
    /\ inst = <<>> /\ lw = <<>> /\ lsd = <<>>
    /\ lk = [t \in LockThreads |-> Idle]

LockNext ==
    \E t \in LockThreads :
        \/ \E op \in LockOps : LockCall(t, op)
        \/ LockAcquire(t)
        \/ LockRelease(t)
        \/ LockSkipWait(t)
        \/ LockRun(t)

LockSpec == LockInit /\ [][LockNext]_vars

\* thread t is blocked in lock() on a mutex that thread u holds
WaitsFor(t, u) ==
    /\ LockAt(t).kind \in {"acq", "wake"}
    /\ LockAt(t).mutex \in HeldBy(u)

\* some threads wait for each other's mutexes
LockDeadlock ==
    \E S \in SUBSET LockThreads :
        /\ S # {}
        /\ \A t \in S : \E u \in S : WaitsFor(t, u)

\* <<m1, m2>>: some operation locks m2 while it holds m1
AcquiresUnder ==
    {e \in Mutexes \X Mutexes :
        \E op \in LockOps :
            \E i \in DOMAIN LockProgram(op) :
                /\ LockProgram(op)[i].kind \in {"acq", "wake"}
                /\ LockProgram(op)[i].mutex = e[2]
                /\ e[1] \in HeldAt(LockProgram(op), i)}

\* the lock-acquisition graph has a cycle: a set of mutexes each of which is
\* held while another one of the set is locked
LockCycle ==
    \E C \in SUBSET Mutexes :
        /\ C # {}
        /\ \A m \in C : \E n \in C : <<m, n>> \in AcquiresUnder

\* ------------------------------------------------------------- the last reference
\* The facade owns the FileSink that Log::EnableFileSink created: the only
\* shared_ptr to it is in inst.sinks, or in the sinksCopy of a Log::Shutdown
\* call that has not returned yet.
FileSinkInCopy == \E c \in SinkCallers : lsd[c].pc = "sinks"

\* a thread is inside the locked block of ClearSinks / UseDefaultSinks, in the
\* destructor of the FileSink that the vector released
FacadeHeld == \E c \in SinkCallers : lsd[c].pc = "destroy"

\* the locked block of ClearSinks / UseDefaultSinks, called by thread c, up to
\* inst.sinks.clear(): when the vector holds the last reference, clear() runs
\* ~FileSink(), which is FileSink::Shutdown call c, under inst.mutex
ReleaseSinks(c, sinks) ==
    /\ lsd[c].pc = "idle"
    /\ cpc[c] = "idle"
    /\ ~FacadeHeld
    /\ inst' = [inst EXCEPT !.sinks = sinks]
    /\ IF FileSinkId \in Range(inst.sinks) /\ ~FileSinkInCopy
       THEN /\ lsd' = [lsd EXCEPT ![c].pc = "destroy"]
            /\ cpc' = cpc
       ELSE /\ lsd' = [lsd EXCEPT ![c].pc = "returned"]
            /\ cpc' = [cpc EXCEPT ![c] = "none"]
    /\ UNCHANGED <<m_options, m_running, m_queue, m_currentSize, isOpen, disk,
                   ppc, lpc, rec, sinkEnqueued, sinkWritten, sinkStopper,
                   sinkStopQueue, rotations>>
    /\ UNCHANGED <<threadingVars, fmtCall, lw, lk>>

ClearSinksCall(c) == ReleaseSinks(c, <<>>)

UseDefaultSinksCall(c) == ReleaseSinks(c, <<DefaultSinkId>>)

\* the destructor has returned: the locked block ends and the call returns
ReleaseSinksReturn(c) ==
    /\ lsd[c].pc = "destroy"
    /\ cpc[c] = "returned"
    /\ lsd' = [lsd EXCEPT ![c].pc = "returned"]
    /\ UNCHANGED <<threadingVars, sinkVars, fmtCall, inst, lw, lk>>

\* a whole Log::Write call of the one thread that logs: Log::Submit copies the
\* sinks under inst.mutex and hands the message to the FileSink
LogLine(r) ==
    /\ ~FacadeHeld
    /\ FileSinkId \in Range(inst.sinks)
    /\ OnMessageCall(r)

\* FileSink::Shutdown call c, made by the facade call of thread c
FacadeSinkShutdown(c) ==
    /\ lsd[c].pc \in {"sinks", "destroy"}
    /\ (SinkShutdown(c) \/ SinkShutdownNotify(c) \/ SinkShutdownJoin(c))

LogReleaseNext ==
    \/ \E c \in SinkCallers : ClearSinksCall(c)
    \/ \E c \in SinkCallers : UseDefaultSinksCall(c)
    \/ \E c \in SinkCallers : ReleaseSinksReturn(c)
    \/ \E c \in SinkCallers : ~FacadeHeld /\ LogShutdown(c)
    \/ \E c \in SinkCallers : LogShutdownReturn(c)
    \/ \E c \in SinkCallers : FacadeSinkShutdown(c)
    \/ \E r \in Lines : LogLine(r)
    \/ SinkWorkerStep
    \/ SpuriousWakeSink

\* threads that call ClearSinks, UseDefaultSinks and Log::Shutdown on a facade
\* with the ConsoleSink and the FileSink of EnableFileSink, while one thread logs
LogReleaseSpec == LogShutdownInit /\ [][LogReleaseNext]_vars

\* ------------------------------------------------------------- claims

\* C1: once a SharedState's state is Ready, Cancelled or Failed it never
\* changes again.
C1_TerminalStateIsFinal ==
    [][\A t \in Tasks : state[t] \in Terminal => state'[t] = state[t]]_vars

\* C2: if Future::Cancel() returned true, the callable of that Future is never
\* invoked.
C2_CancelTrueNeverInvoked ==
    \A t \in Tasks : CancelReturned(t, TRUE) => ~invoked[t]

\* C3 (as stated): if Future::Cancel() returns false, the callable has already
\* run or is currently running.
C3_CancelFalseRanOrRunning ==
    \A t \in Tasks : CancelReturned(t, FALSE) => (invoked[t] \/ Running(t))

\* C3 (amended): if Future::Cancel() returns false, the callable has already
\* run, or is currently running, or the Future was already Cancelled when the
\* call was made.
C3_CancelFalseRanRunningOrCancelled ==
    \A t \in Tasks : CancelReturned(t, FALSE) =>
        (invoked[t] \/ Running(t) \/ cancelRet[3] = "Cancelled")

C3_Witness ==
    \E t \in Tasks : CancelReturned(t, FALSE) /\ cancelRet[3] = "Running" /\ Running(t)

\* C4: a Cancel() that completes while the Task is still queued keeps the
\* callable from ever running: the worker that pops the Task later skips the
\* callable and the Future stays Cancelled.
C4_QueuedCancelNeverRuns ==
    \A t \in Tasks : (cancelRet # NoCall /\ cancelRet[1] = t /\ cancelRet[4]) =>
        (~invoked[t] /\ state[t] = "Cancelled")

C4_Witness ==
    \E t \in Tasks :
        /\ cancelRet # NoCall /\ cancelRet[1] = t /\ cancelRet[4]
        /\ t \in Range(popped)
        /\ ~Held(t)
        /\ ~invoked[t]

\* C5: TryCancel returns true and sets the state to Cancelled exactly when the
\* state is Pending at the call; in every other state it returns false and
\* leaves the state unchanged; value and exception are never touched.
C5_TryCancelOnlyFromPending ==
    [][cancelRet' # cancelRet =>
        LET t == cancelRet'[1]
        IN /\ cancelRet'[3] = state[t]
           /\ IF state[t] = "Pending"
              THEN cancelRet'[2] = TRUE /\ state'[t] = "Cancelled"
              ELSE cancelRet'[2] = FALSE /\ state'[t] = state[t]
           /\ \A u \in Tasks \ {t} : state'[u] = state[u]
           /\ value' = value
           /\ exception' = exception]_vars

C5_Witness ==
    \E t \in Tasks :
        /\ CancelReturned(t, TRUE)
        /\ cancelRet[3] = "Pending"
        /\ state[t] = "Cancelled"

\* C6: the queue never holds more than the effective maxQueueSize (at least 1)
\* Tasks; a Submit call enqueues only when the queue is strictly below that
\* bound and the pool is not stopping, and parks when the queue is full and the
\* pool is not stopping.
C6_QueueBounded ==
    /\ [](Len(m_tasks) <= m_maxQueueSize /\ m_maxQueueSize >= 1)
    /\ [][\A t \in Tasks : (spc[t] \in {"idle", "retry"} /\ spc'[t] # spc[t]) =>
            /\ spc'[t] = "notify" =>
                  /\ Len(m_tasks) < m_maxQueueSize
                  /\ ~m_stopping
                  /\ m_tasks' = Append(m_tasks, t)
            /\ (~m_stopping /\ Len(m_tasks) >= m_maxQueueSize) =>
                  /\ spc'[t] = "waiting"
                  /\ m_tasks' = m_tasks]_vars

C6_Witness ==
    /\ Len(m_tasks) = m_maxQueueSize
    /\ ~m_stopping
    /\ \E t \in Tasks : spc[t] = "waiting"

\* C7 (as stated): with maxQueueSize = N and nothing cancelled or shut down,
\* the (N+1)th Submit call does not return while no callable has completed.
C7_NthPlusOneWaitsForCompletion ==
    (/\ cancelRet = NoCall
     /\ discarded = {}
     /\ ~m_stopping
     /\ Cardinality(Returned) > m_maxQueueSize)
        => \E t \in Tasks : invoked[t]

\* C7 (amended): a slot frees when a worker pops a Task (or the queue is
\* cleared), not when a callable completes: the Submit calls that enqueued
\* never outnumber N plus the Tasks popped or cleared so far.
C7_SlotFreesOnPop ==
    Cardinality(Accepted) <= m_maxQueueSize + Len(popped) + Cardinality(discarded)

C7_Witness ==
    /\ cancelRet = NoCall
    /\ discarded = {}
    /\ ~m_stopping
    /\ Cardinality(Returned) = m_maxQueueSize + 1
    /\ Len(popped) = 1
    /\ \A t \in Tasks : ~invoked[t]

\* C8: a Submit call that finds the pool stopping returns a Future that is
\* Cancelled and stays so, enqueues nothing and its callable is never invoked;
\* and no Submit call is left parked by a shutdown: a parked call exists under
\* m_stopping only while Shutdown's notify_all is still to come.
C8_SubmitWhileStopping ==
    /\ [](\A t \in Tasks :
            /\ spc[t] = "rejected" =>
                  /\ state[t] = "Cancelled"
                  /\ ~invoked[t]
                  /\ t \notin Range(m_tasks) \cup Range(popped) \cup discarded
                  /\ ~Held(t)
            /\ (m_stopping /\ spc[t] = "waiting") => sdpc[stopper] = "notify")
    /\ [][\A t \in Tasks :
            (m_stopping /\ spc[t] \in {"idle", "retry"} /\ spc'[t] # spc[t]) =>
                (spc'[t] = "rejected" /\ m_tasks' = m_tasks)]_vars

C8_Witness ==
    \E t \in Tasks :
        /\ spc[t] = "rejected"
        /\ state[t] = "Cancelled"
        /\ Len(m_tasks) = m_maxQueueSize

\* C8, liveness: under fair scheduling a Submit call that is parked or woken
\* while the pool is stopping eventually returns its pre-cancelled Future.
C8_BlockedSubmitReturns ==
    \A t \in Tasks :
        (m_stopping /\ spc[t] \in {"waiting", "retry"}) ~> (spc[t] = "rejected")

C10_ShutdownNoWaitCancels ==
    (stopper # 0 /\ ~stopWait) =>
        /\ \A t \in Range(stopQueue) :
              /\ state[t] = "Cancelled"
              /\ ~invoked[t]
              /\ t \in discarded
              /\ t \notin Range(m_tasks) \cup Range(popped)
        /\ StopperReturned =>
              \A t \in Range(popped) :
                  /\ ~Held(t)
                  /\ state[t] \in Terminal
                  /\ invoked[t] \/ state[t] = "Cancelled"

C10_Witness ==
    /\ StopperReturned
    /\ ~stopWait
    /\ stopQueue # <<>>
    /\ \E t \in Range(popped) : invoked[t]

\* C11 (a step that clears Tasks from the queue while no Shutdown call moves
\* is a CancelAllPending step): it empties the queue; every Task it removed has its
\* Future Cancelled, is never popped and its callable is never invoked; the
\* state of every other Task (those a worker holds included) and the workers
\* are left as they were, m_stopping is unchanged, and a Submit call that
\* later finds room on the pool that is not stopping still enqueues.
C11_CancelAllPending ==
    /\ [](\A t \in discarded :
            /\ state[t] = "Cancelled"
            /\ ~invoked[t]
            /\ t \notin Range(popped) \cup Range(m_tasks)
            /\ ~Held(t))
    /\ [][/\ (discarded' # discarded /\ sdpc' = sdpc) =>
                (/\ m_tasks' = <<>>
                 /\ discarded' = discarded \cup Range(m_tasks)
                 /\ m_stopping' = m_stopping
                 /\ \A t \in Range(m_tasks) : state'[t] = "Cancelled" /\ ~invoked'[t]
                 /\ \A t \in Tasks \ Range(m_tasks) : state'[t] = state[t]
                 /\ wpc' = wpc
                 /\ wtask' = wtask)
           /\ \A t \in Tasks :
                (/\ discarded # {}
                 /\ ~m_stopping
                 /\ Len(m_tasks) < m_maxQueueSize
                 /\ spc[t] \in {"idle", "retry"}
                 /\ spc'[t] # spc[t]) => m_tasks' = Append(m_tasks, t)]_vars

C11_Witness ==
    /\ discarded # {}
    /\ ~m_stopping
    /\ \E t \in Range(m_tasks) : t \notin discarded
    /\ \A t \in discarded : state[t] = "Cancelled"

C13_FuturesComplete ==
    /\ \A t \in Tasks :
           (spc[t] \in {"returned", "rejected"}) ~> (state[t] \in Terminal)
    /\ \A t \in Tasks :
           (gpc[t] \in {"waiting", "woken", "read"}) ~> (gpc[t] \in GetOutcomes)
    /\ \A t \in Tasks :
           (spc[t] = "returned") ~> (state[t] = "Ready" \/ Disturbed(t))

C13_Witness ==
    /\ \A t \in Tasks : state[t] = "Ready" /\ gpc[t] = "value" /\ ~Disturbed(t)

\* C14: Get returns a value only when the callable ran and returned,
\* re-raises only when the callable raised, throws "cancelled" only when the
\* callable is never invoked, and never finds a finished Future without a
\* value.
C14_GetFidelity ==
    \A t \in Tasks :
        /\ gpc[t] = "value" => (invoked[t] /\ value[t])
        /\ gpc[t] = "rethrown" => (invoked[t] /\ exception[t])
        /\ gpc[t] = "cancelled" => ~invoked[t]
        /\ gpc[t] # "novalue"

\* C15: a callable that throws leaves its Future Failed with the exception
\* stored; the worker that ran it goes back to Dequeue, no other Future and
\* no other worker is touched, and a worker only ever exits on a stopping
\* pool.
C15_FailureCaptured ==
    /\ [][\A w \in Workers :
            (wtask[w] # NoTask /\ exception'[wtask[w]] # exception[wtask[w]]) =>
                /\ state'[wtask[w]] = "Failed"
                /\ exception'[wtask[w]]
                /\ wpc'[w] = "dequeue"
                /\ \A u \in Tasks \ {wtask[w]} :
                      /\ state'[u] = state[u]
                      /\ exception'[u] = exception[u]
                /\ value' = value
                /\ \A v \in Workers \ {w} : wpc'[v] = wpc[v]]_vars
    /\ [](\A w \in Workers : wpc[w] = "exited" => m_stopping)

C15_Witness ==
    /\ m_threadCount = 1
    /\ \E i, j \in 1..Len(popped) :
           /\ i < j
           /\ state[popped[i]] = "Failed"
           /\ exception[popped[i]]
           /\ state[popped[j]] = "Ready"

\* C16: the sink's queue never holds more than queueCapacity records; an
\* OnMessage call enqueues only when the queue is strictly below queueCapacity
\* and the sink is running, and parks when the queue is full and the sink is
\* running.
C16_SinkQueueBounded ==
    /\ [](Len(m_queue) <= m_options.queueCapacity)
    /\ [][\A r \in Records : (ppc[r] \in {"called", "retry"} /\ ppc'[r] # ppc[r]) =>
            /\ ppc'[r] = "returned" =>
                  /\ Len(m_queue) < m_options.queueCapacity
                  /\ m_running
                  /\ m_queue' = Append(m_queue, r)
            /\ (m_running /\ Len(m_queue) >= m_options.queueCapacity) =>
                  /\ ppc'[r] = "waiting"
                  /\ m_queue' = m_queue]_vars

C16_Witness ==
    /\ m_running
    /\ m_options.queueCapacity >= 1
    /\ Len(m_queue) = m_options.queueCapacity
    /\ sinkWritten = <<>>
    /\ rec = NoRecord
    /\ \E r \in Records : ppc[r] = "waiting"

\* C17: the records written to the file, and the records the files hold from
\* the oldest backup to the active file, are in the order in which they were
\* enqueued, each at most once.
C17_WrittenInEnqueueOrder ==
    /\ NoDuplicates(sinkEnqueued)
    /\ NoDuplicates(sinkWritten)
    /\ InOrderOf(sinkWritten, sinkEnqueued)
    /\ NoDuplicates(DiskRecords)
    /\ InOrderOf(DiskRecords, sinkWritten)

C17_Witness ==
    /\ Len(sinkStopQueue) = 2
    /\ DiskRecords = sinkEnqueued
    /\ DOMAIN disk = {0, 1}
    /\ Len(disk[1]) = 1
    /\ Len(disk[0]) = 1

\* C18: records are written in the order in which their OnMessage calls began
\* (record ids are given in that order).
C18_WrittenInCallOrder ==
    \A i, j \in 1..Len(sinkWritten) : i < j => sinkWritten[i] < sinkWritten[j]

\* C19: an OnMessage call that runs after m_running was cleared returns
\* without enqueuing, whether it was parked on the full queue or had not yet
\* taken the lock; the queue never grows once m_running is cleared; and no
\* call is left parked by Shutdown: a parked call exists under a cleared
\* m_running only while Shutdown's notify_all is still to come.
C19_OnMessageWhileShuttingDown ==
    /\ [](\A r \in Records :
            /\ ppc[r] = "dropped" => (~m_running /\ r \notin Range(sinkEnqueued))
            /\ (~m_running /\ ppc[r] = "waiting") => cpc[sinkStopper] = "notify")
    /\ [][~m_running =>
            /\ Len(m_queue') <= Len(m_queue)
            /\ sinkEnqueued' = sinkEnqueued
            /\ \A r \in Records :
                  (ppc[r] \in {"called", "retry"} /\ ppc'[r] # ppc[r]) =>
                      ppc'[r] = "dropped"]_vars

C19_Witness ==
    \E r \in Records :
        /\ ppc[r] = "dropped"
        /\ m_options.queueCapacity >= 1
        /\ Len(sinkStopQueue) = m_options.queueCapacity
        /\ m_queue = sinkStopQueue
        /\ sinkWritten = <<>>
        /\ rec = NoRecord

\* C19, liveness: under fair scheduling of the sink's threads an OnMessage
\* call that has not returned when m_running is cleared eventually returns,
\* its record dropped.
C19_BlockedOnMessageReturns ==
    \A r \in Records :
        (~m_running /\ ppc[r] \in {"called", "waiting", "retry"}) ~> (ppc[r] = "dropped")

\* C20: the sink's thread exits only when m_running is cleared and the queue
\* is empty; when the Shutdown call that cleared m_running returns, every
\* record that was queued at that moment has been popped and handled, the
\* thread has exited and the file is closed; a popped record is written
\* exactly when the file is open once the open and rotate attempts are done,
\* which an open file with rotation disabled always is.
C20_SinkShutdownDrains ==
    /\ []((SinkStopperReturned) =>
            /\ lpc = "exited"
            /\ m_queue = <<>>
            /\ rec = NoRecord
            /\ ~isOpen)
    /\ [][(lpc # "exited" /\ lpc' = "exited") => (~m_running /\ m_queue = <<>>)]_vars
    /\ [][(lpc = "write" /\ lpc' # "write") =>
            /\ isOpen' <=> sinkWritten' = Append(sinkWritten, rec)
            /\ isOpen' => (0 \in DOMAIN disk' /\ disk'[0] # <<>>
                           /\ disk'[0][Len(disk'[0])][1] = rec)
            /\ ~isOpen' => sinkWritten' = sinkWritten
            /\ (isOpen /\ (m_options.maxBytes = 0 \/ m_options.maxFiles = 0)) => isOpen']_vars

C20_Witness ==
    /\ SinkStopperReturned
    /\ Len(sinkStopQueue) = 2
    /\ sinkWritten = sinkStopQueue

\* C21: before writing a record the FileSink rotates exactly when maxBytes > 0,
\* maxFiles > 0 and the tracked size of the current file plus the size of the
\* record exceeds maxBytes; when the sum is at most maxBytes, or maxBytes or
\* maxFiles is 0, it does not rotate and appends the record to the current file
C21_RotatesWhenExceeding ==
    [][\A messageSize \in 1..MaxRecordSize, reopens \in BOOLEAN, rotateOpens \in BOOLEAN :
         (SinkWrite(messageSize, reopens, rotateOpens) /\ (isOpen \/ reopens)) =>
           LET exceeds == /\ m_options.maxBytes > 0
                          /\ m_options.maxFiles > 0
                          /\ OpenedSize + messageSize > m_options.maxBytes
           IN /\ (rotations' # rotations) <=> exceeds
              /\ (~exceeds) =>
                    disk' = [OpenedDisk EXCEPT
                               ![0] = Append(@, <<rec, messageSize, rotations>>)]
      ]_vars

\* every line of file path.i was written when rotations - i rotations had been
\* performed, and no file beyond path.maxFiles exists
ShiftedHistory ==
    /\ DOMAIN disk \subseteq 0..m_options.maxFiles
    /\ \A i \in DOMAIN disk : \A k \in 1..Len(disk[i]) : disk[i][k][3] = rotations - i

\* C22: with maxFiles = M > 0 the only backups are path.1 .. path.M and path.i
\* holds the generation written i rotations ago; a rotation moves the active
\* file to path.1 and path.N to path.(N+1) for 1 <= N < M, discards the old
\* path.M, and starts a fresh active file whose tracked size is 0 before the
\* record is added; after M+1 rotations nothing of the first generation is left
C22_BoundedShiftedHistory ==
    /\ ShiftedHistory
    /\ [][/\ ShiftedHistory'
          /\ \A messageSize \in 1..MaxRecordSize, reopens \in BOOLEAN,
                rotateOpens \in BOOLEAN :
                (SinkWrite(messageSize, reopens, rotateOpens) /\ rotations' # rotations) =>
                  LET M == m_options.maxFiles
                  IN /\ M > 0
                     /\ rotations' = rotations + 1
                     /\ Backups' = {N + 1 : N \in DOMAIN OpenedDisk \cap 0..(M - 1)}
                     /\ \A N \in DOMAIN OpenedDisk \cap 0..(M - 1) :
                            disk'[N + 1] = OpenedDisk[N]
                     /\ m_currentSize' = messageSize
                     /\ IF isOpen'
                        THEN disk'[0] = << <<rec, messageSize, rotations'>> >>
                        ELSE 0 \notin DOMAIN disk'
                     /\ (rotations' > M) =>
                            \A i \in DOMAIN disk' : \A k \in 1..Len(disk'[i]) :
                                disk'[i][k][3] # 0
         ]_vars

\* with one backup, two rotations after the first record was written: the first
\* record is in no file any more
C22_Witness ==
    /\ m_options.maxFiles = 1
    /\ rotations = m_options.maxFiles + 1
    /\ sinkWritten = <<1, 2, 3>>
    /\ ~(1 \in Range(DiskRecords))
    /\ Backups = {1}
    /\ DiskRecords = <<2, 3>>

\* C23: with rotation enabled and only records shorter than maxBytes in it, the
\* active file is smaller than maxBytes after every write; with maxFiles = 2,
\* after 3 rotations exactly the 2 backups path.1 and path.2 exist
C23_ActiveFileBelowMaxBytes ==
    /\ (/\ m_options.maxBytes > 0
        /\ m_options.maxFiles > 0
        /\ 0 \in DOMAIN disk
        /\ \A k \in 1..Len(disk[0]) : disk[0][k][2] < m_options.maxBytes)
       => /\ FileBytes(disk[0]) < m_options.maxBytes
          /\ isOpen => m_currentSize = FileBytes(disk[0])
    /\ (m_options.maxFiles = 2 /\ rotations = 3) => Backups = {1, 2}

\* four records of one byte with maxBytes = 2 and maxFiles = 2: three rotations,
\* the last three records in path.2, path.1 and the active file
C23_Witness ==
    /\ m_options.maxBytes = 2
    /\ m_options.maxFiles = 2
    /\ rotations = 3
    /\ isOpen
    /\ disk[0] = << <<4, 1, 3>> >>
    /\ disk[1] = << <<3, 1, 2>> >>
    /\ disk[2] = << <<2, 1, 1>> >>
    /\ FileBytes(disk[0]) < m_options.maxBytes

\* C24: a Log::Write call at level L whose level test runs while the runtime
\* level is M goes on to its sinks if and only if L >= M, and is suppressed
\* otherwise; with M = Warning exactly Trace, Debug and Info are suppressed. A
\* suppressed call reaches no sink; a call that gets to its sinks has handed the
\* message to every sink registered when it returns
C24_LevelFilter ==
    [][\A w \in Writes :
         /\ (lw[w].pc = "level" /\ lw'[w].pc # "level") =>
              /\ lw'[w].pc = IF lw[w].level >= inst.runtimeLevel THEN "category"
                             ELSE "filtered"
              /\ (inst.runtimeLevel = Warning) =>
                    (lw'[w].pc = "filtered" <=> lw[w].level \in {Trace, Debug, Info})
         /\ (lw'[w].pc = "filtered") => lw'[w].handed = <<>>
         /\ (lw[w].pc = "deliver" /\ lw'[w].pc = "returned") =>
              (lw'[w].handed = lw[w].snapshot /\ lw[w].snapshot # <<>>)
      ]_vars

\* the level is Warning and a Warning message has been handed to the console sink
C24_Witness ==
    /\ inst.runtimeLevel = Warning
    /\ lw[1].level = Warning
    /\ lw[1].pc = "returned"
    /\ lw[1].handed = <<DefaultSinkId>>

\* C25: every category is enabled until a SetCategoryEnabled call sets it to
\* false, and is what the most recent call for it said; a call sets only its
\* own category; a message that passed the level test is suppressed exactly
\* when it has a category and that category is disabled, and then no sink gets it
C25_CategoryFilter ==
    /\ \A c \in Categories : inst.categoryEnabled[c] = "absent"
    /\ [][/\ \A c \in Categories, enabled \in BOOLEAN :
               SetCategoryEnabled(c, enabled) =>
                 /\ inst'.categoryEnabled[c] = IF enabled THEN "true" ELSE "false"
                 /\ \A d \in Categories \ {c} :
                        inst'.categoryEnabled[d] = inst.categoryEnabled[d]
          /\ \A w \in Writes :
               /\ (lw[w].pc = "category" /\ lw'[w].pc # "category") =>
                    lw'[w].pc = IF /\ lw[w].category # NoCategory
                                   /\ inst.categoryEnabled[lw[w].category] = "false"
                                THEN "filtered" ELSE "format"
               /\ (lw'[w].pc = "filtered") => lw'[w].handed = <<>>
         ]_vars

\* a Fatal message of a disabled category has been suppressed while the other
\* category was never touched
C25_Witness ==
    /\ lw[1].pc = "filtered"
    /\ lw[1].level = Fatal
    /\ lw[1].category = 1
    /\ inst.categoryEnabled[1] = "false"
    /\ inst.categoryEnabled[2] = "absent"

\* p is the beginning of q
IsPrefix(p, q) == Len(p) <= Len(q) /\ p = SubSeq(q, 1, Len(p))

C27_LogShutdownJoins ==
    \A c \in SinkCallers :
        (lsd[c].pc = "returned") =>
            /\ inst.sinks = <<>>
            /\ (lsd[c].fileSinks # <<>>) => (m_queue = <<>> /\ lpc = "exited")

\* an opening brace at or after position i that is not part of "{{" and has no
\* later "}"
RECURSIVE UnmatchedFrom(_, _)
UnmatchedFrom(fmt, i) ==
    /\ i <= Len(fmt)
    /\ IF fmt[i] # "{" THEN UnmatchedFrom(fmt, i + 1)
       ELSE IF i < Len(fmt) /\ fmt[i + 1] = "{" THEN UnmatchedFrom(fmt, i + 2)
       ELSE \/ Find(fmt, <<"}">>, i + 1) = 0
            \/ UnmatchedFrom(fmt, Find(fmt, <<"}">>, i + 1) + 1)

\* the text expected for the format string from position i on with nargs arguments
\* left: "{{" is "{", "}}" is "}", a placeholder is the next argument or, without
\* one, stays as it is
RECURSIVE Rendered(_, _, _)
Rendered(fmt, i, nargs) ==
    IF i > Len(fmt) THEN <<>>
    ELSE IF i < Len(fmt) /\ fmt[i] = "{" /\ fmt[i + 1] = "{"
    THEN <<"{">> \o Rendered(fmt, i + 2, nargs)
    ELSE IF i < Len(fmt) /\ fmt[i] = "}" /\ fmt[i + 1] = "}"
    THEN <<"}">> \o Rendered(fmt, i + 2, nargs)
    ELSE IF fmt[i] = "{"
    THEN LET close == Find(fmt, <<"}">>, i + 1)
         IN IF nargs > 0 THEN ArgText \o Rendered(fmt, close + 1, nargs - 1)
            ELSE SubSeq(fmt, i, close) \o Rendered(fmt, close + 1, 0)
    ELSE <<fmt[i]>> \o Rendered(fmt, i + 1, nargs)

\* C28: for every format string and every number of arguments, zero included,
\* fmt::format turns each "{{" into one "{" and each "}}" into one "}", wherever
\* the escape stands: before, between or after the substituted placeholders
C28_EscapesEverywhere ==
    (fmtCall.pc \in {"returned", "threw"} /\ ~UnmatchedFrom(fmtCall.fmtStr, 1)) =>
        /\ fmtCall.pc = "returned"
        /\ fmtCall.result = Rendered(fmtCall.fmtStr, 1, fmtCall.nargs)

\* C29: a format string with an unmatched "{" makes fmt::format fail, for every
\* number of arguments, zero included, also when every argument has been
\* consumed by an earlier placeholder
C29_UnmatchedBraceFails ==
    (fmtCall.pc \in {"returned", "threw"} /\ UnmatchedFrom(fmtCall.fmtStr, 1)) =>
        fmtCall.pc = "threw"

\* C30: no Log::Write call ends with an exception: whatever its level, category,
\* format string and arguments, the call returns normally
C30_WriteNeverThrows == \A w \in Writes : lw[w].pc # "threw"

\* C31: the data of every SharedState, as a thread holding its mutex sees it:
\* a state that has left Pending never is Pending again, a value is present
\* only in state Ready, an exception only in state Failed, and never both.
C31_SharedStateInvariant ==
    /\ [](\A t \in Tasks :
            /\ value[t] => state[t] = "Ready"
            /\ exception[t] => state[t] = "Failed"
            /\ ~(value[t] /\ exception[t]))
    /\ [][\A t \in Tasks :
            state[t] \notin {"NoState", "Pending"} => state'[t] # "Pending"]_vars

C31_Witness ==
    \E t, u \in Tasks :
        /\ state[t] = "Ready" /\ value[t] /\ CancelReturned(t, TRUE)
        /\ state[u] = "Failed" /\ exception[u] /\ ~value[u]

\* C35: whenever a FileSink::Shutdown call has returned, be it the first call
\* or a second one made while the first is in progress, the sink's thread has
\* terminated, the queue is empty and the file is closed
C35_AnySinkShutdownJoins ==
    \A c \in SinkCallers : cpc[c] = "returned" =>
        (lpc = "exited" /\ m_queue = <<>> /\ ~isOpen)

\* C40: the FileSink never rotates an empty active file: the backups are
\* shifted only when the tracked size of the current file is greater than
\* zero, so a record of at least maxBytes bytes that arrives right after a
\* rotation (or as the first record) leaves the backups as they are
C40_NeverRotatesEmptyFile ==
    [][\A messageSize \in 1..MaxRecordSize, reopens \in BOOLEAN, rotateOpens \in BOOLEAN :
         (SinkWrite(messageSize, reopens, rotateOpens) /\ rotations' # rotations) =>
            OpenedSize > 0
      ]_vars

\* C37: Future::Cancel() does not take the Task out of the queue: the queue
\* holds every Task that was enqueued and has neither been popped by a worker
\* nor cleared by CancelAllPending / Shutdown(false), cancelled or not, and
\* all of them count against maxQueueSize (GetQueueSize is m_tasks.size())
C37_CancelKeepsQueueSlot ==
    /\ Range(m_tasks) = Range(enqueued) \ (Range(popped) \cup discarded)
    /\ NoDuplicates(m_tasks)
    /\ Len(m_tasks) <= m_maxQueueSize

\* the cancelled Task fills the queue and a Submit call waits for its slot
C37_Witness ==
    /\ ~m_stopping
    /\ Len(m_tasks) = m_maxQueueSize
    /\ \E t \in Range(m_tasks) : CancelReturned(t, TRUE) /\ state[t] = "Cancelled"
    /\ \E u \in Tasks : spc[u] = "waiting"

\* ------------------------------------------------------------- Future observers
\* the Future for Submit call t as the caller has it: default-constructed
\* (m_state is null, "NoState") until Submit has returned one, then a handle on
\* the SharedState of t
FutureHandle(t) == IF spc[t] \in {"returned", "rejected"} THEN state[t] ELSE "NoState"

\* Future<T>::IsReady on a handle whose SharedState is in state s
FutureIsReady(s) == IF s = "NoState" THEN FALSE ELSE s = "Ready"

\* Future<T>::IsCancelled
FutureIsCancelled(s) == IF s # "NoState" THEN IsCancelled(s) ELSE FALSE

\* Future<T>::GetState
FutureGetState(s) == IF s = "NoState" THEN "Cancelled" ELSE s

\* C38: on every Future handle, valid or default-constructed, and in every
\* state, IsCancelled() is true exactly when GetState() is Cancelled, and
\* IsReady() is true exactly when GetState() is Ready
C38_ObserversAgree ==
    \A t \in Tasks :
        LET s == FutureHandle(t)
        IN /\ FutureIsCancelled(s) <=> FutureGetState(s) = "Cancelled"
           /\ FutureIsReady(s) <=> FutureGetState(s) = "Ready"

\* C34: whenever a ThreadPool::Shutdown call has returned, be it the call that
\* set m_stopping or one that found it set and returned early, every worker
\* has exited and the queue is empty
C34_AnyShutdownJoins ==
    \A c \in DOMAIN sdpc : sdpc[c] = "returned" =>
        /\ \A w \in Workers : wpc[w] \in {"exited", "absent"}
        /\ m_tasks = <<>>

\* a worker that can take no step until another thread acts: parked on
\* m_cvTasks, or inside the callable whose Submit call is parked on m_cvSpace
WorkerBlocked(w) ==
    \/ wpc[w] \in {"waiting", "absent"}
    \/ OuterRunning(w) /\ spc[NestedTask] = "waiting"

\* every worker is blocked and every Submit call in progress is parked, while
\* no Shutdown has begun
PoolStuck ==
    /\ ~m_stopping
    /\ \E t \in AllTasks : spc[t] = "waiting"
    /\ \A t \in AllTasks : spc[t] \notin {"retry", "notify"}
    /\ \A w \in Workers : WorkerBlocked(w)

\* C36: every Submit call returns in the end, enqueued or pre-cancelled,
\* whether an outside thread makes it or a callable running on a worker of
\* the pool, and the pool never gets to a state where every worker and every
\* Submit call in progress is blocked while no Shutdown has begun
C36_SubmitReturns ==
    /\ [](~PoolStuck)
    /\ \A t \in AllTasks :
          (spc[t] \in {"waiting", "retry", "notify"}) ~> (spc[t] \in {"returned", "rejected"})

\* C39: no thread holds the mutex of the facade while a FileSink is being
\* shut down (its queue drained, its thread joined), whatever sequence of
\* ClearSinks, UseDefaultSinks, Log::Shutdown and logging calls is made
C39_SinkShutdownOutsideFacadeLock ==
    ~(FacadeHeld /\ ~m_running /\ lpc # "exited")

\* C32: a thread that holds a SharedState mutex never tries to lock the mutex
\* of the pool, of the FileSink or of the facade; the lock-acquisition graph
\* over the four kinds of mutex has no cycle; and no reachable state is a
\* deadlock of threads that wait for each other's mutexes
C32_SharedStateMutexInnermost ==
    /\ \A t \in LockThreads :
           "state" \in HeldBy(t) =>
               ~(/\ LockAt(t).kind \in {"acq", "wake"}
                 /\ LockAt(t).mutex \in {"pool", "sink", "facade"})
    /\ ~LockCycle
    /\ ~LockDeadlock

\* a thread holds the mutex of the pool and a SharedState mutex, and another
\* thread is blocked on one of them
C32_Witness ==
    \E t, u \in LockThreads :
        /\ {"pool", "state"} \subseteq HeldBy(t)
        /\ WaitsFor(u, t)

\* C33: while a submitted callable runs, its worker holds neither the mutex of
\* the pool nor the SharedState mutex; while an OnMessage called by
\* Log::Submit runs, the calling thread does not hold the mutex of the facade
C33_NoLockAcrossUserCode ==
    \A t \in LockThreads :
        /\ LockAt(t).code = "callable" => HeldBy(t) \cap {"pool", "state"} = {}
        /\ LockAt(t).code = "OnMessage" => "facade" \notin HeldBy(t)

\* a worker runs a callable while another thread is inside an OnMessage of
\* the FileSink that Log::Submit called
C33_Witness ==
    \E t, u \in LockThreads :
        /\ LockAt(t).code = "callable"
        /\ LockAt(u).code = "OnMessage"
        /\ "sink" \in HeldBy(u)

TypeOK ==
    /\ m_maxQueueSize \in 1..(MaxQueueCfg + 1)
    /\ cancelRet \in {NoCall} \cup (Tasks \X BOOLEAN \X FutureState \X BOOLEAN)
    /\ discarded \subseteq AllTasks
    /\ m_stopping \in BOOLEAN
    /\ state \in [AllTasks -> FutureState \cup {"NoState"}]
    /\ Range(m_tasks) \subseteq AllTasks

====
